---- MODULE Spec2Model ----
(***************************************************************************)
(* Model of the KeePass 2 (KDBX 3.1) codec of rust-kpdb.                   *)
(*                                                                         *)
(* Bytes are modelled as cells.  A concrete byte n is the cell <<"b", n>>.  *)
(* The output of a cryptographic primitive (SHA-256, AES-256-CBC, Salsa20) *)
(* and of GZip is a sequence of symbolic cells of the right length that    *)
(* carries its preimage: the primitives are idealised as collision free.   *)
(* Everything the repository's own code does with the bytes (framing,      *)
(* little-endian integers, short reads, the order of the checks) is        *)
(* modelled on the cells as the code does it.                              *)
(***************************************************************************)
EXTENDS Integers, Sequences, FiniteSets, TLC

(***************************************************************************)
(* Generic helpers                                                         *)
(***************************************************************************)
NoneV == <<"none">>
Some(v) == <<"some", v>>
IsSome(o) == o[1] = "some"
Unwrap(o) == o[2]

Min(a, b) == IF a < b THEN a ELSE b

B(n) == <<"b", n>>
Bytes(s) == [i \in 1..Len(s) |-> B(s[i])]
Zeros(n) == [i \in 1..n |-> B(0)]
Fill(n, v) == [i \in 1..n |-> B(v)]
Take(s, n) == SubSeq(s, 1, Min(n, Len(s)))
Drop(s, n) == SubSeq(s, Min(n, Len(s)) + 1, Len(s))

\* byteorder::LittleEndian write_uN: the n lowest bytes of v, lowest first.
RECURSIVE LE(_, _)
LE(v, n) == IF n = 0 THEN <<>> ELSE <<B(v % 256)>> \o LE(v \div 256, n - 1)

\* byteorder::LittleEndian read_uN.  A symbolic cell has no numeric value;
\* it is read as a number outside every range the code compares against.
RECURSIVE FromLEBytes(_)
FromLEBytes(s) == IF s = <<>> THEN 0 ELSE s[1][2] + 256 * FromLEBytes(Tail(s))
FromLE(s) == IF \E i \in 1..Len(s) : s[i][1] # "b" THEN -1 ELSE FromLEBytes(s)

(***************************************************************************)
(* Program constants                                                       *)
(***************************************************************************)
DB_SIGNATURE == Bytes(<<3, 217, 162, 154>>)
KDB1_SIGNATURE == Bytes(<<101, 251, 75, 181>>)
KDB2_SIGNATURE == Bytes(<<103, 251, 75, 181>>)
AES_CIPHER_ID ==
    Bytes(<<49, 193, 242, 230, 191, 113, 67, 80, 190, 88, 5, 33, 106, 252, 90, 255>>)
FINAL_BLOCK_HASH == Zeros(32)
GENERATOR_NAME == "rust-kpdb"
ROOT_GROUP_NAME == "Root"
KDB2_MAJOR_VERSION == 3
KDB2_MINOR_VERSION == 1

END_HID == 0
COMMENT_HID == 1
MASTER_CIPHER_HID == 2
COMPRESSION_HID == 3
MASTER_SEED_HID == 4
TRANSFORM_SEED_HID == 5
TRANSFORM_ROUNDS_HID == 6
MASTER_IV_HID == 7
PROTECTED_STREAM_KEY_HID == 8
STREAM_START_BYTES_HID == 9
STREAM_CIPHER_HID == 10

MASTER_CIPHER_SIZE == 16
COMPRESSION_SIZE == 4
MASTER_SEED_SIZE == 32
TRANSFORM_SEED_SIZE == 32
TRANSFORM_ROUNDS_SIZE == 8
MASTER_IV_SIZE == 16
PROTECTED_STREAM_KEY_SIZE == 32
STREAM_START_BYTES_SIZE == 32
STREAM_CIPHER_SIZE == 4

RequiredHids == 2..10

(***************************************************************************)
(* Idealised primitives                                                    *)
(***************************************************************************)
\* sha256::hash: 32 cells, never all zero, equal only for equal inputs.
Sha256(x) == <<<<"sha256", x>>>> \o [i \in 1..31 |-> <<"sha256_", i>>]

\* TransformedKey::new, MasterKey::new, StreamKey::new.
TransformedKey(composite, seed, rounds) == <<"transformed", composite, seed, rounds>>
MasterKey(seed, transformed) == <<"master", seed, transformed>>
StreamKey(protected_stream_key) == Sha256(protected_stream_key)

(***************************************************************************)
(* State                                                                   *)
(***************************************************************************)
VARIABLES
    db,          \* the database handed to Database::save, NoneV before a save
    input,       \* the bytes behind the reader handed to Database::open
    key,         \* the composite key handed to Database::open
    pos,         \* LogReader.inner: position of the underlying reader
    is_logging,  \* LogReader.is_logging
    log_data,    \* LogReader.log_data
    pc,          \* position of the control in Database::open / kdb2_reader::read
    version,     \* kdb2_reader::read: version
    headers,     \* kdb2_reader::read: the Option<..> local of every header id
    header_hash, \* kdb2_reader::read: header_hash
    payload,     \* kdb2_reader::read: payload, the decrypted bytes
    cur,         \* read_xml_bytes: position of the Cursor over payload[32..]
    block_id,    \* read_xml_bytes: the loop counter block_id
    xml,         \* read_xml_bytes: xml, the bytes accumulated so far
    xml_data,    \* the XmlData returned by kdb2_xml_reader::read
    result,      \* what Database::open returned
    key_file,    \* the KeyFile handed to KeyFile::save
    receiver,    \* the Group whose iter or iter_mut was called
    curr,        \* Iter.curr / IterMut.curr
    todo,        \* Iter.todo / IterMut.todo
    yielded,     \* what next() has returned so far, in order
    subject,     \* the value handed to a formatter ({:?})
    out,         \* the text the formatter has produced
    sink,        \* LogWriter.inner: the bytes the underlying writer has taken
    transferred, \* the bytes transferred while logging was on, since the last clear
    cut          \* the underlying reader or writer stops a transfer at this
                 \* position (the seam of a Chain, the end of a buffer); 0: nowhere

\* The key file and the group iterator, which opening and saving a database
\* leave alone.
others == <<key_file, receiver, curr, todo, yielded, subject, out, sink, transferred, cut>>
\* The formatter and the log writer, which the other operations leave alone.
extras == <<subject, out, sink, transferred, cut>>
vars == <<db, input, key, pos, is_logging, log_data, pc, version, headers,
          header_hash, payload, cur, block_id, xml, xml_data, result,
          key_file, receiver, curr, todo, yielded, subject, out, sink, transferred, cut>>
\* Nothing is being formatted and nothing has been written.
Idle == subject = NoneV /\ out = <<>> /\ sink = <<>> /\ transferred = <<>> /\ cut = 0

\* A Result<T>: <<kind, name of the error, value or arguments of the error>>.
Running == <<"Running", "", <<>>>>
\* No key file is at hand.
NoKeyFile == [key |-> <<>>, file_type |-> "none"]
Err(name, args) == <<"Err", name, args>>
Ok(v) == <<"Ok", "", v>>
Panic(where) == <<"Panic", where, <<>>>>
Kind(r) == r[1]
Name(r) == r[2]
Args(r) == r[3]
IsErr(r, name) == r[1] = "Err" /\ r[2] = name
\* Variant: the end of the input reported as a block id error.
EofAsBlockId == Err("InvalidBlockId", <<0>>)
\* read_exact on too few bytes: io::ErrorKind::UnexpectedEof.
IoError == Err("Io", <<"UnexpectedEof">>)

(***************************************************************************)
(* std::io::Read over the underlying reader and LogReader on top of it.    *)
(* A Cursor or a File fills the buffer as far as bytes remain; a reader     *)
(* made of two parts (Read::chain, a BufReader at the end of its buffer)    *)
(* stops a read at the seam.                                                *)
(***************************************************************************)
Avail(inp, p) == Len(inp) - p

\* Read::read(&mut buf) of a reader with a seam: the bytes read overwrite
\* the front of buf, the rest of buf keeps what it held.
ReadSome(inp, p, buf, seam) ==
    LET n == Min(Min(Len(buf), Avail(inp, p)), IF p < seam THEN seam - p ELSE Len(buf))
    IN  [buf |-> SubSeq(inp, p + 1, p + n) \o SubSeq(buf, n + 1, Len(buf)), n |-> n]

\* Read::read(&mut buf) of a Cursor.
ReadBuf(inp, p, buf) == ReadSome(inp, p, buf, 0)

\* What LogReader appends to its log during a read_exact of n bytes at p
\* into a zeroed buffer, provided n bytes remain: read_exact calls read with
\* what is left to fill, and every call logs the slice it was given.
ExactLogged(inp, p, n, seam) ==
    IF p < seam /\ seam < p + n
    THEN SubSeq(inp, p + 1, seam) \o Zeros(p + n - seam) \o SubSeq(inp, seam + 1, p + n)
    ELSE SubSeq(inp, p + 1, p + n)

\* LogReader::read: the whole buffer is appended to the log while logging.
LogRead(logging, log, buf) == IF logging THEN log \o buf ELSE log

(***************************************************************************)
(* Database::open                                                          *)
(***************************************************************************)
\* Variant: an unknown second signature reported as an invalid signature.
SecondSignatureAsInvalid(buffer) == Err("InvalidDbSignature", buffer)
\* The error of open for a second signature that is neither KDB1 nor KDB2.
SecondSignatureError(buffer) == Err("UnhandledDbType", buffer)

Open ==
    /\ pc = "open"
    /\ LET r1 == ReadSome(input, pos, Zeros(4), cut)
           p1 == pos + r1.n
           l1 == LogRead(is_logging, log_data, r1.buf)
           r2 == ReadSome(input, p1, r1.buf, cut)
           p2 == p1 + r2.n
           l2 == LogRead(is_logging, l1, r2.buf)
       IN  IF r1.buf # DB_SIGNATURE
           THEN /\ result' = Err("InvalidDbSignature", r1.buf)
                /\ pc' = "done"
                /\ pos' = p1
                /\ log_data' = l1
           ELSE /\ pos' = p2
                /\ log_data' = l2
                /\ IF r2.buf = KDB1_SIGNATURE
                   THEN result' = Err("UnhandledDbType", r2.buf) /\ pc' = "done"
                   ELSE IF r2.buf = KDB2_SIGNATURE
                   THEN result' = result /\ pc' = "version"
                   ELSE result' = SecondSignatureError(r2.buf) /\ pc' = "done"
    /\ UNCHANGED <<db, input, key, is_logging, version, headers, header_hash,
                   payload, cur, block_id, xml, xml_data>>
    /\ UNCHANGED others

(***************************************************************************)
(* kdb2_reader::read: version and header records                           *)
(***************************************************************************)
\* read_version: two read_u16 (read_exact), minor first.
ReadVersion ==
    /\ pc = "version"
    /\ IF Avail(input, pos) < 4
       THEN /\ result' = IoError
            /\ pc' = "done"
            /\ UNCHANGED <<version, pos, log_data>>
       ELSE /\ version' = [minor |-> FromLE(SubSeq(input, pos + 1, pos + 2)),
                           major |-> FromLE(SubSeq(input, pos + 3, pos + 4))]
            /\ pos' = pos + 4
            /\ log_data' = LogRead(is_logging, log_data,
                        ExactLogged(input, pos, 2, cut) \o ExactLogged(input, pos + 2, 2, cut))
            /\ pc' = "headers"
            /\ UNCHANGED result
    /\ UNCHANGED <<db, input, key, is_logging, headers, header_hash,
                   payload, cur, block_id, xml, xml_data>>
    /\ UNCHANGED others

\* The size each read_<header> function compares the size field against.
HeaderSize(id) ==
    CASE id = MASTER_CIPHER_HID -> MASTER_CIPHER_SIZE
      [] id = COMPRESSION_HID -> COMPRESSION_SIZE
      [] id = MASTER_SEED_HID -> MASTER_SEED_SIZE
      [] id = TRANSFORM_SEED_HID -> TRANSFORM_SEED_SIZE
      [] id = TRANSFORM_ROUNDS_HID -> TRANSFORM_ROUNDS_SIZE
      [] id = MASTER_IV_HID -> MASTER_IV_SIZE
      [] id = PROTECTED_STREAM_KEY_HID -> PROTECTED_STREAM_KEY_SIZE
      [] id = STREAM_START_BYTES_HID -> STREAM_START_BYTES_SIZE
      [] id = STREAM_CIPHER_HID -> STREAM_CIPHER_SIZE

\* The headers whose data is read with read_u32 / read_u64 (read_exact);
\* the others are read with read_bytes_16 / read_bytes_32 (Read::read).
ReadExactHids == {COMPRESSION_HID, STREAM_CIPHER_HID, TRANSFORM_ROUNDS_HID}

\* The value a read_<header> function makes of the data, or its error.
HeaderValue(id, data) ==
    CASE id = MASTER_CIPHER_HID ->
            IF data = AES_CIPHER_ID THEN Ok("Aes256")
            ELSE Err("UnhandledMasterCipher", data)
      [] id = COMPRESSION_HID ->
            IF FromLE(data) = 0 THEN Ok("None")
            ELSE IF FromLE(data) = 1 THEN Ok("GZip")
            ELSE Err("UnhandledCompression", <<FromLE(data)>>)
      [] id = STREAM_CIPHER_HID ->
            IF FromLE(data) = 2 THEN Ok("Salsa20")
            ELSE Err("UnhandledStreamCipher", <<FromLE(data)>>)
      [] id = TRANSFORM_ROUNDS_HID -> Ok(FromLE(data))
      [] OTHER -> Ok(data)

\* Variant: expected and actual size swapped.
HeaderSizeErrorSwapped(id, size) == Err("InvalidHeaderSize", <<id, size, HeaderSize(id)>>)
\* The error of a read_<header> function whose size check fails.
HeaderSizeError(id, size) == Err("InvalidHeaderSize", <<id, HeaderSize(id), size>>)

\* One iteration of the loop of kdb2_reader::read over the record at p:
\* [res, next, logged, id, value] where res is Running or the error.
ReadHeaderRecord(inp, p, seam) ==
    LET fail(e) == [res |-> e, next |-> p, logged |-> <<>>, id |-> 0, value |-> NoneV]
    IN
    IF Avail(inp, p) < 1 THEN fail(IoError)
    ELSE LET id == FromLE(SubSeq(inp, p + 1, p + 1)) IN
    IF id \notin 0..10 THEN fail(Err("UnhandledHeader", <<id>>))
    ELSE IF Avail(inp, p + 1) < 2 THEN fail(IoError)
    ELSE LET size == FromLE(SubSeq(inp, p + 2, p + 3))
             r == ReadSome(inp, p + 3, Zeros(size), seam)
             head == ExactLogged(inp, p, 1, seam) \o ExactLogged(inp, p + 1, 2, seam)
             done(v) == [res |-> Running, next |-> p + 3 + r.n,
                         logged |-> head \o r.buf, id |-> id, value |-> v]
             exact(v) == [res |-> Running, next |-> p + 3 + size,
                          logged |-> head \o ExactLogged(inp, p + 3, size, seam),
                          id |-> id, value |-> v]
         IN
    IF id \in {COMMENT_HID, END_HID} THEN done(Some(r.buf))
    ELSE IF size # HeaderSize(id) THEN fail(HeaderSizeError(id, size))
    ELSE IF id \in ReadExactHids
    THEN IF Avail(inp, p + 3) < size THEN fail(IoError)
         ELSE LET v == HeaderValue(id, SubSeq(inp, p + 4, p + 3 + size)) IN
              IF Kind(v) = "Err" THEN fail(v) ELSE exact(Some(Args(v)))
    ELSE LET v == HeaderValue(id, r.buf) IN
         IF Kind(v) = "Err" THEN fail(v) ELSE done(Some(Args(v)))

ReadHeader ==
    /\ pc = "headers"
    /\ LET h == ReadHeaderRecord(input, pos, cut) IN
       IF Kind(h.res) = "Err"
       THEN /\ result' = h.res
            /\ pc' = "done"
            /\ UNCHANGED <<pos, log_data, headers>>
       ELSE /\ pos' = h.next
            /\ log_data' = LogRead(is_logging, log_data, h.logged)
            /\ headers' = IF h.id = END_HID THEN headers
                          ELSE [headers EXCEPT ![h.id] = h.value]
            /\ pc' = IF h.id = END_HID THEN "end" ELSE "headers"
            /\ UNCHANGED result
    /\ UNCHANGED <<db, input, key, is_logging, version, header_hash,
                   payload, cur, block_id, xml, xml_data>>
    /\ UNCHANGED others

\* The order in which kdb2_reader::read asks get_header for the headers.
GetHeaderOrder ==
    <<COMPRESSION_HID, MASTER_CIPHER_HID, MASTER_IV_HID, MASTER_SEED_HID,
      PROTECTED_STREAM_KEY_HID, STREAM_CIPHER_HID, STREAM_START_BYTES_HID,
      TRANSFORM_ROUNDS_HID, TRANSFORM_SEED_HID>>

\* Variant: the first header of the order is reported whenever one is missing.
FirstInOrder(hs) ==
    IF \A i \in 1..Len(GetHeaderOrder) : IsSome(hs[GetHeaderOrder[i]]) THEN 0
    ELSE GetHeaderOrder[1]
\* get_header over the nine locals: the first missing one, or 0.
FirstMissing(hs) ==
    LET miss == {i \in 1..Len(GetHeaderOrder) : ~IsSome(hs[GetHeaderOrder[i]])}
    IN  IF miss = {} THEN 0
        ELSE GetHeaderOrder[CHOOSE i \in miss : \A j \in miss : i <= j]

\* After the End record: the header hash, stop and clear the log, get_header.
\* The header hash is SHA-256 of the log.
FinishHeaders ==
    /\ pc = "end"
    /\ header_hash' = Sha256(log_data)
    /\ is_logging' = FALSE
    /\ log_data' = <<>>
    /\ IF FirstMissing(headers) # 0
       THEN result' = Err("MissingHeader", <<FirstMissing(headers)>>) /\ pc' = "done"
       ELSE result' = result /\ pc' = "decrypt"
    /\ UNCHANGED <<db, input, key, pos, version, headers,
                   payload, cur, block_id, xml, xml_data>>
    /\ UNCHANGED others

(***************************************************************************)
(* crypto::aes256 and compression::gzip, idealised                         *)
(***************************************************************************)
Junk(n) == [i \in 1..n |-> <<"junk", i>>]

\* Length of the PKCS#7 padded plaintext.
PaddedLen(n) == 16 * (n \div 16 + 1)

\* aes256::encrypt: AES-256-CBC with PKCS#7 padding.
AesEncrypt(master_key, iv, plain) ==
    <<<<"aes", master_key, iv, plain>>>>
        \o [i \in 1..(PaddedLen(Len(plain)) - 1) |-> <<"aes_", i>>]

IsCiphertext(ct) ==
    /\ Len(ct) > 0
    /\ ct[1][1] = "aes"
    /\ ct = AesEncrypt(ct[1][2], ct[1][3], ct[1][4])

\* aes256::decrypt: the set of results AES-256-CBC decryption can give.
\*  - the ciphertext of (master_key, iv): the plaintext;
\*  - the right key with another IV: only the first block comes out wrong;
\*  - any other key, or blocks that no encryption produced: pseudo-random
\*    blocks, so the padding check fails or, by chance, passes and strips
\*    1 to 16 bytes;
\*  - a length that is not a positive multiple of 16: an error; for the empty
\*    input the library is outside the repository and both an error and an
\*    empty plaintext are allowed.
AesDecrypt(master_key, iv, ct) ==
    IF ct = <<>> THEN {Err("CryptoError", <<"InvalidLength">>), Ok(<<>>)}
    ELSE IF Len(ct) % 16 # 0 THEN {Err("CryptoError", <<"InvalidLength">>)}
    ELSE IF IsCiphertext(ct) /\ ct[1][2] = master_key /\ ct[1][3] = iv
    THEN {Ok(ct[1][4])}
    ELSE IF IsCiphertext(ct) /\ ct[1][2] = master_key /\ Len(ct) > 16
    THEN {Ok(Junk(16) \o Drop(ct[1][4], 16))}
    ELSE {Err("CryptoError", <<"InvalidPadding">>)}
         \cup {Ok(Junk(Len(ct) - pad)) : pad \in 1..16}

\* gzip::encode: a header, the deflated data and the CRC trailer.
GzipEncode(x) ==
    <<<<"gz_header", 0>>>> \o [i \in 1..Len(x) |-> <<"gz_data", x[i]>>] \o <<<<"gz_crc", x>>>>

\* gzip::decode: the data of a complete GZip stream, or an I/O error.
GzipDecode(y) ==
    LET body == [i \in 1..(Len(y) - 2) |-> y[i + 1][2]] IN
    IF /\ Len(y) >= 2
       /\ y[1] = <<"gz_header", 0>>
       /\ \A i \in 2..(Len(y) - 1) : y[i][1] = "gz_data"
       /\ y[Len(y)][1] = "gz_crc"
       /\ y[Len(y)][2] = body
    THEN Ok(body)
    ELSE Err("Io", <<"gzip">>)

\* kdb2_reader::decompress
Decompress(compression, data) ==
    IF compression = "None" THEN Ok(data) ELSE GzipDecode(data)

\* kdb2_writer::compress
Compress(compression, data) ==
    IF compression = "None" THEN data ELSE GzipEncode(data)

(***************************************************************************)
(* kdb2_reader::read: key derivation, decryption, stream start bytes       *)
(***************************************************************************)
\* The error open returns when aes256::decrypt fails.
DecryptError(e) == e

DecryptPayload ==
    /\ pc = "decrypt"
    /\ LET transformed_key ==
               TransformedKey(key, Unwrap(headers[TRANSFORM_SEED_HID]),
                              Unwrap(headers[TRANSFORM_ROUNDS_HID]))
           master_key == MasterKey(Unwrap(headers[MASTER_SEED_HID]), transformed_key)
           encrypted == Drop(input, pos)
       IN  \E d \in AesDecrypt(master_key, Unwrap(headers[MASTER_IV_HID]), encrypted) :
             /\ pos' = Len(input)
             /\ IF Kind(d) = "Err"
                THEN result' = DecryptError(d) /\ pc' = "done" /\ payload' = payload
                ELSE IF Len(Args(d)) < 32
                THEN result' = Panic("payload[0..32]") /\ pc' = "done" /\ payload' = Args(d)
                ELSE IF SubSeq(Args(d), 1, 32) # Unwrap(headers[STREAM_START_BYTES_HID])
                THEN result' = Err("InvalidKey", <<>>) /\ pc' = "done" /\ payload' = Args(d)
                ELSE result' = result /\ pc' = "blocks" /\ payload' = Args(d)
    /\ cur' = 0
    /\ block_id' = 0
    /\ xml' = <<>>
    /\ UNCHANGED <<db, input, key, is_logging, log_data, version, headers,
                   header_hash, xml_data>>
    /\ UNCHANGED others

(***************************************************************************)
(* kdb2_reader::read_xml_bytes: one iteration of the loop over the blocks  *)
(***************************************************************************)
\* The loop counter block_id runs over 0..u32::max_value(); no stream of the
\* model is long enough to exhaust it.
\* Variants: a check left out.
BlockIdUnchecked(id, counter) == TRUE
BlockHashUnchecked(hash, raw_data) == TRUE
FinalHashUnchecked(hash) == TRUE
\* The check of the block id against the loop counter.
BlockIdOk(id, counter) == id = counter

\* The check of the stored hash against the hash of the raw data.
BlockHashOk(hash, raw_data) == Sha256(raw_data) = hash

\* The check of the hash of a block of size 0.
FinalHashOk(hash) == hash = FINAL_BLOCK_HASH

\* [st, err, next, data]: st is "more" (a data block was appended), "break"
\* (the final block) or "err" with the error in err.
ReadBlockAt(compression, stream, p, counter) ==
    LET fail(e) == [st |-> "err", err |-> e, next |-> p, data |-> <<>>] IN
    IF Avail(stream, p) < 4 THEN fail(IoError)
    ELSE LET id == FromLE(SubSeq(stream, p + 1, p + 4))
             h == ReadBuf(stream, p + 4, Zeros(32))
             p2 == p + 4 + h.n
         IN
    IF Avail(stream, p2) < 4 THEN fail(IoError)
    ELSE LET size == FromLE(SubSeq(stream, p2 + 1, p2 + 4))
             d == ReadBuf(stream, p2 + 4, Zeros(size))
             p3 == p2 + 4 + d.n
         IN
    IF ~BlockIdOk(id, counter) THEN fail(Err("InvalidBlockId", <<id>>))
    ELSE IF size = 0
    THEN IF FinalHashOk(h.buf)
         THEN [st |-> "break", err |-> Running, next |-> p3, data |-> <<>>]
         ELSE fail(Err("InvalidFinalBlockHash", h.buf))
    ELSE IF ~BlockHashOk(h.buf, d.buf) THEN fail(Err("InvalidBlockHash", <<>>))
    ELSE LET x == Decompress(compression, d.buf) IN
         IF Kind(x) = "Err" THEN fail(x)
         ELSE [st |-> "more", err |-> Running, next |-> p3, data |-> Args(x)]

ReadBlock ==
    /\ pc = "blocks"
    /\ LET b == ReadBlockAt(Unwrap(headers[COMPRESSION_HID]), Drop(payload, 32),
                            cur, block_id)
       IN  IF b.st = "more"
           THEN /\ xml' = xml \o b.data
                /\ cur' = b.next
                /\ block_id' = block_id + 1
                /\ pc' = "blocks"
                /\ UNCHANGED result
           ELSE IF b.st = "break"
           THEN /\ cur' = b.next
                /\ pc' = "xml"
                /\ UNCHANGED <<block_id, xml, result>>
           ELSE /\ result' = b.err
                /\ pc' = "done"
                /\ UNCHANGED <<cur, block_id, xml>>
    /\ UNCHANGED <<db, input, key, pos, is_logging, log_data, version, headers,
                   header_hash, payload, xml_data>>
    /\ UNCHANGED others

\* ---------------------------------------------------------------------------
\* The XML payload.  The document is the sequence of events the XML parser
\* yields; the end of the sequence is the EndDocument event, and a cell that
\* is not an event is a syntax error.  The white space the emitter puts
\* between elements yields events every loop of the reader skips: it is left
\* out.  A text is Str(s) for a string with a character outside the base64
\* alphabet, or Base64Encode(bytes).  The codec keeps groups and entries in
\* maps keyed by UUID and links them by UUID; the model nests them, which is
\* the same value as long as the UUIDs of a database are distinct.
KEE_PASS_FILE_TAG == "KeePassFile"
META_TAG == "Meta"
ROOT_TAG == "Root"
GENERATOR_TAG == "Generator"
HEADER_HASH_TAG == "HeaderHash"
DATABASE_NAME_TAG == "DatabaseName"
GROUP_TAG == "Group"
ENTRY_TAG == "Entry"
UUID_TAG == "UUID"
NAME_TAG == "Name"
CUSTOM_ICON_UUID_TAG == "CustomIconUUID"
STRING_TAG == "String"
KEY_TAG == "Key"
VALUE_TAG == "Value"
BINARY_TAG == "Binary"
BINARIES_TAG == "Binaries"
ICON_ID_TAG == "IconID"
IS_EXPANDED_TAG == "IsExpanded"
TIMES_TAG == "Times"
CREATION_TIME_TAG == "CreationTime"
USAGE_COUNT_TAG == "UsageCount"
HISTORY_TAG == "History"

Str(s) == <<"str", s>>
Base64Encode(bytes) == <<"b64", bytes>>
Base64Decode(text) == IF text[1] = "b64" THEN Ok(text[2]) ELSE Err("XmlError", <<"Base64">>)
StartEl(name, attrs) == <<"xml", <<"start", name, attrs>>>>
Chars(text) == <<"xml", <<"chars", "", text>>>>
EndEl(name) == <<"xml", <<"end", name, <<>>>>>>
XmlSyntaxError == Err("XmlError", <<"syntax">>)

\* reader.next(): the event at position i.
NextEvent(x, i) ==
    IF i > Len(x) THEN <<"eof", "", <<>>>>
    ELSE IF x[i][1] # "xml" THEN <<"bad", "", <<>>>>
    ELSE x[i][2]
NextFails(e) == e[1] \in {"eof", "bad"}

\* salsa20: the cipher is its key and its position in the key stream; the
\* cipher text of n bytes is n cells, the first naming key, position and
\* plain text.  Decrypting at another position or key gives other bytes.
new_cipher(stream_key) == [key |-> stream_key, at |-> 0]
StrLen(s) == CASE s = "" -> 0 [] s = "pw" -> 2 [] OTHER -> 3
Utf8(text) == [i \in 1..StrLen(text[2]) |-> <<"utf8", <<text, i>>>>]
Salsa20Apply(cipher, plain) ==
    IF plain = <<>> THEN <<>>
    ELSE <<<<"salsa", <<cipher.key, cipher.at, plain>>>>>> \o
         [i \in 1..(Len(plain) - 1) |-> <<"salsa_", i>>]
\* Variant: the key stream is used up in whole blocks of 64 bytes.
AdvanceBlocks(cipher, n) == [cipher EXCEPT !.at = @ + 64 * ((n + 63) \div 64)]
\* The key stream moves on by the number of bytes processed.
Advance(cipher, n) == [cipher EXCEPT !.at = @ + n]
salsa20_encrypt(cipher, plain) == Salsa20Apply(cipher, plain)
salsa20_decrypt(cipher, bytes) ==
    IF bytes = <<>> THEN <<>>
    ELSE IF bytes[1][1] = "salsa" /\ bytes = Salsa20Apply(cipher, bytes[1][2][3])
         THEN bytes[1][2][3]
    ELSE [i \in 1..Len(bytes) |-> <<"garbled", i>>]
from_utf8(bytes) ==
    IF bytes = <<>> THEN Ok(Str(""))
    ELSE IF bytes[1][1] = "utf8" /\ bytes = Utf8(bytes[1][2][1]) THEN Ok(bytes[1][2][1])
    ELSE Err("XmlError", <<"UTF8">>)

\* xml.rs: the readers of one element's content.  Each returns the result
\* and the position after the events it consumed.
read_string_opt(x, i) ==
    LET e == NextEvent(x, i)
    IN  IF NextFails(e) THEN [res |-> XmlSyntaxError, i |-> i]
        ELSE IF e[1] = "chars" THEN [res |-> Ok(Some(e[3])), i |-> i + 1]
        ELSE [res |-> Ok(NoneV), i |-> i + 1]

xml_read_string(x, i) ==
    LET r == read_string_opt(x, i)
    IN  IF Kind(r.res) = "Err" THEN r
        ELSE IF IsSome(Args(r.res)) THEN [r EXCEPT !.res = Ok(Unwrap(Args(r.res)))]
        ELSE [r EXCEPT !.res = Ok(Str(""))]

read_binary_opt(x, i) ==
    LET r == read_string_opt(x, i)
    IN  IF Kind(r.res) = "Err" THEN r
        ELSE IF ~IsSome(Args(r.res)) THEN r
        ELSE LET d == Base64Decode(Unwrap(Args(r.res)))
             IN  IF Kind(d) = "Err" THEN [r EXCEPT !.res = d]
                 ELSE [r EXCEPT !.res = Ok(Some(Args(d)))]

xml_read_binary(x, i) ==
    LET r == read_binary_opt(x, i)
    IN  IF Kind(r.res) = "Err" THEN r
        ELSE IF IsSome(Args(r.res)) THEN [r EXCEPT !.res = Ok(Unwrap(Args(r.res)))]
        ELSE [r EXCEPT !.res = Ok(<<>>)]

Uuid(n) == Fill(16, n)
NilUuid == Uuid(0)
UuidOfBinary(r) ==
    IF Kind(r.res) = "Err" THEN r
    ELSE IF ~IsSome(Args(r.res)) THEN r
    ELSE IF Len(Unwrap(Args(r.res))) = 16 THEN r
    ELSE [r EXCEPT !.res = Err("XmlError", <<"UUID">>)]
read_uuid_opt(x, i) == UuidOfBinary(read_binary_opt(x, i))

UuidOfOpt(r) ==
    IF Kind(r.res) = "Err" THEN r
    ELSE IF IsSome(Args(r.res)) THEN [r EXCEPT !.res = Ok(Unwrap(Args(r.res)))]
    ELSE [r EXCEPT !.res = Err("XmlError", <<"No UUID value found">>)]
read_uuid(x, i) == UuidOfOpt(read_uuid_opt(x, i))

read_custom_icon_uuid_opt(x, i) == read_uuid_opt(x, i)


ToLower(s) == CASE s = "Protected" -> "protected"
                [] s = "ProtectInMemory" -> "protectinmemory"
                [] s = "True" -> "true"
                [] s = "False" -> "false"
                [] s = "Ref" -> "ref"
                [] s = "ID" -> "id"
                [] s = "Compressed" -> "compressed"
                [] OTHER -> s
RECURSIVE search_attr_value(_, _)
search_attr_value(attrs, name) ==
    IF attrs = <<>> THEN NoneV
    ELSE IF ToLower(attrs[1][1]) = ToLower(name) THEN Some(attrs[1][2])
    ELSE search_attr_value(Tail(attrs), name)

ParseBoolAttr(attrs, name) ==
    LET v == search_attr_value(attrs, name)
    IN  IF ~IsSome(v) THEN Ok(FALSE)
        ELSE IF ToLower(Unwrap(v)) = "true" THEN Ok(TRUE)
        ELSE IF ToLower(Unwrap(v)) = "false" THEN Ok(FALSE)
        ELSE Err("XmlError", <<"Attribute invalid value">>)
get_protect_in_memory_attr_value(attrs) == ParseBoolAttr(attrs, "protectinmemory")
get_protected_attr_value(attrs) == ParseBoolAttr(attrs, "protected")

\* The decimal texts of the numbers the model writes and reads:
\* format!("{}", n) and str::parse::<i32>.
KnownNumbers == {0, 1, 48, 99}
FormatI32(n) == Str(CASE n = 0 -> "0" [] n = 1 -> "1" [] n = 48 -> "48" [] n = 99 -> "99")
ParseI32(text) ==
    IF text[1] = "str" /\ \E n \in KnownNumbers : FormatI32(n) = text
    THEN Ok(CHOOSE n \in KnownNumbers : FormatI32(n) = text)
    ELSE Err("XmlError", <<"Number">>)
I32OfString(r) ==
    IF Kind(r.res) = "Err" THEN r
    ELSE IF ~IsSome(Args(r.res)) THEN r
    ELSE IF Kind(ParseI32(Unwrap(Args(r.res)))) = "Err"
    THEN [r EXCEPT !.res = ParseI32(Unwrap(Args(r.res)))]
    ELSE [r EXCEPT !.res = Ok(Some(Args(ParseI32(Unwrap(Args(r.res))))))]
read_i32_opt(x, i) == I32OfString(read_string_opt(x, i))
Required(r, msg) ==
    IF Kind(r.res) = "Err" THEN r
    ELSE IF IsSome(Args(r.res)) THEN [r EXCEPT !.res = Ok(Unwrap(Args(r.res)))]
    ELSE [r EXCEPT !.res = Err("XmlError", <<msg>>)]
read_i32(x, i) == Required(read_i32_opt(x, i), "No Number value found")

\* Icon::from_i32 knows the ids 0 to 68.
IconOfI32(r) ==
    IF Kind(r.res) = "Err" THEN r
    ELSE IF Args(r.res) \in 0..68 THEN r
    ELSE [r EXCEPT !.res = Err("XmlError", <<"Icon">>)]
read_icon(x, i) == IconOfI32(Required(read_i32_opt(x, i), "No Icon value found"))

\* read_bool_opt: the text in lower case is false, null or true.
BoolOfString(r) ==
    IF Kind(r.res) = "Err" THEN r
    ELSE IF ~IsSome(Args(r.res)) THEN r
    ELSE IF Unwrap(Args(r.res))[1] # "str" THEN [r EXCEPT !.res = Err("XmlError", <<"Bool">>)]
    ELSE CASE ToLower(Unwrap(Args(r.res))[2]) = "false" -> [r EXCEPT !.res = Ok(Some(FALSE))]
           [] ToLower(Unwrap(Args(r.res))[2]) = "null" -> [r EXCEPT !.res = Ok(NoneV)]
           [] ToLower(Unwrap(Args(r.res))[2]) = "true" -> [r EXCEPT !.res = Ok(Some(TRUE))]
           [] OTHER -> [r EXCEPT !.res = Err("XmlError", <<"Bool">>)]
read_bool_opt(x, i) == BoolOfString(read_string_opt(x, i))
read_bool(x, i) == Required(read_bool_opt(x, i), "No Bool value found")

\* The text of a date and time, format!("{:?}", t), and its parse.
FormatDateTime(t) == <<"datetime", t>>
DateTimeOfString(r) ==
    IF Kind(r.res) = "Err" THEN r
    ELSE IF ~IsSome(Args(r.res))
    THEN [r EXCEPT !.res = Err("XmlError", <<"No DateTime value found">>)]
    ELSE IF Unwrap(Args(r.res))[1] = "datetime" THEN [r EXCEPT !.res = Ok(Unwrap(Args(r.res))[2])]
    ELSE [r EXCEPT !.res = Err("XmlError", <<"DateTime">>)]
read_datetime(x, i) == DateTimeOfString(read_string_opt(x, i))

\* StringKey::from_string and to_string: the five standard keys are matched
\* without regard to case and written in their canonical spelling.
\* str::to_lowercase, on the spellings the model uses.
KeyLower(s) == CASE s \in {"Title", "title", "TITLE"} -> "title"
                 [] s \in {"Password", "password", "PASSWORD"} -> "password"
                 [] s \in {"Notes", "notes", "NOTES"} -> "notes"
                 [] s \in {"URL", "Url", "url"} -> "url"
                 [] s \in {"UserName", "Username", "username", "USERNAME"} -> "username"
                 [] s \in {"FooBar", "foobar"} -> "foobar"
                 [] s \in {"K", "k"} -> "k"
                 [] OTHER -> s
from_string(text) ==
    CASE KeyLower(text[2]) = "notes" -> <<"Notes", "">>
      [] KeyLower(text[2]) = "password" -> <<"Password", "">>
      [] KeyLower(text[2]) = "title" -> <<"Title", "">>
      [] KeyLower(text[2]) = "url" -> <<"Url", "">>
      [] KeyLower(text[2]) = "username" -> <<"Username", "">>
      [] OTHER -> <<"Other", text[2]>>
to_string(string_key) ==
    CASE string_key[1] = "Notes" -> Str("Notes")
      [] string_key[1] = "Password" -> Str("Password")
      [] string_key[1] = "Title" -> Str("Title")
      [] string_key[1] = "Url" -> Str("URL")
      [] string_key[1] = "Username" -> Str("UserName")
      [] OTHER -> Str(string_key[2])

read_string_key_opt(x, i) ==
    LET r == read_string_opt(x, i)
    IN  IF Kind(r.res) = "Err" THEN r
        ELSE IF IsSome(Args(r.res))
        THEN [r EXCEPT !.res = Ok(Some(from_string(Unwrap(Args(r.res)))))]
        ELSE r

\* StringValue::new(string, protected)
StringValue(string, protected) ==
    IF protected THEN <<"Protected", string>> ELSE <<"Plain", string>>

read_string_value_opt(x, i, cipher, attrs) ==
    LET pmem == get_protect_in_memory_attr_value(attrs)
        pxml == get_protected_attr_value(attrs)
        fail(e) == [res |-> e, i |-> i, cipher |-> cipher]
    IN  IF Kind(pmem) = "Err" THEN fail(pmem)
        ELSE IF Kind(pxml) = "Err" THEN fail(pxml)
        ELSE LET protected == Args(pmem) \/ Args(pxml)
             IN  IF Args(pxml)
                 THEN LET r == read_binary_opt(x, i)
                      IN  IF Kind(r.res) = "Err" THEN fail(r.res)
                          ELSE IF ~IsSome(Args(r.res))
                          THEN [res |-> Ok(Some(StringValue(Str(""), protected))),
                                i |-> r.i, cipher |-> cipher]
                          ELSE LET bytes == Unwrap(Args(r.res))
                                   str == from_utf8(salsa20_decrypt(cipher, bytes))
                               IN  IF Kind(str) = "Err"
                                   THEN [res |-> str, i |-> r.i,
                                         cipher |-> Advance(cipher, Len(bytes))]
                                   ELSE [res |-> Ok(Some(StringValue(Args(str), protected))),
                                         i |-> r.i,
                                         cipher |-> Advance(cipher, Len(bytes))]
                 ELSE LET r == read_string_opt(x, i)
                      IN  IF Kind(r.res) = "Err" THEN fail(r.res)
                          ELSE IF IsSome(Args(r.res))
                          THEN [res |-> Ok(Some(StringValue(Unwrap(Args(r.res)), protected))),
                                i |-> r.i, cipher |-> cipher]
                          ELSE [res |-> Ok(Some(StringValue(Str(""), protected))),
                                i |-> r.i, cipher |-> cipher]

\* read_binary_key_opt: the key of a binary is the string as read.
read_binary_key_opt(x, i) == read_string_opt(x, i)

\* read_binary_value_opt: a Ref attribute makes the value a reference and
\* nothing of the element is read; otherwise the bytes are decoded and, when
\* Protected, decrypted with the cipher, which moves on by their length.
BinaryOfBytes(r, cipher, protected) ==
    IF Kind(r.res) = "Err" THEN [res |-> r.res, i |-> r.i, cipher |-> cipher]
    ELSE IF ~IsSome(Args(r.res))
    THEN [res |-> Ok(Some(<<IF protected THEN "Protected" ELSE "Plain", <<>> >>)),
          i |-> r.i, cipher |-> cipher]
    ELSE IF protected
    THEN [res |-> Ok(Some(<<"Protected", salsa20_decrypt(cipher, Unwrap(Args(r.res)))>>)),
          i |-> r.i, cipher |-> Advance(cipher, Len(Unwrap(Args(r.res))))]
    ELSE [res |-> Ok(Some(<<"Plain", Unwrap(Args(r.res))>>)), i |-> r.i, cipher |-> cipher]
read_binary_value_opt(x, i, cipher, attrs) ==
    LET ref_value == search_attr_value(attrs, "ref")
        protected == get_protected_attr_value(attrs)
    IN  IF Kind(protected) = "Err" THEN [res |-> protected, i |-> i, cipher |-> cipher]
        ELSE IF IsSome(ref_value)
        THEN [res |-> Ok(Some(<<"Ref", Unwrap(ref_value)>>)), i |-> i, cipher |-> cipher]
        ELSE BinaryOfBytes(read_binary_opt(x, i), cipher, Args(protected))

\* kdb2_xml_reader.rs.  Every loop reads events until the end tag of its
\* section; an event it has no case for is skipped.
EmptyMap == [k \in {} |-> NoneV]
MapInsert(m, k, v) == [j \in (DOMAIN m) \cup {k} |-> IF j = k THEN v ELSE m[j]]
EntryDefault == [uuid |-> NilUuid, strings |-> EmptyMap, binaries |-> EmptyMap,
                 history |-> <<>>]
\* Utc::now() at the time a default group is made.
Now == <<"time", "now">>
GroupDefault == [uuid |-> NilUuid, name |-> Str(""), custom_icon_uuid |-> NoneV,
                 entries |-> <<>>, groups |-> <<>>, icon |-> 48, is_expanded |-> TRUE,
                 creation_time |-> Now, usage_count |-> 0]
\* Group::new(name), with the UUID drawn.
GroupNew(name, uuid) == [GroupDefault EXCEPT !.name = name, !.uuid = uuid]
XmlDataDefault == [generator |-> Str(""), name |-> Str(""), header_hash |-> NoneV,
                   root_group |-> NoneV, binaries |-> EmptyMap]

\* try!(...) on the result r of a nested reader: an error is returned at
\* once, with the cipher (and the data) the caller holds where the nested
\* reader does not carry them; otherwise the caller goes on with the value.
Try(r, Go(_)) == IF Kind(r.res) = "Err" THEN r ELSE Go(r)
TryC(r, cipher, Go(_)) ==
    IF Kind(r.res) = "Err" THEN [res |-> r.res, i |-> r.i, cipher |-> cipher] ELSE Go(r)
TryD(r, data, Go(_)) ==
    IF Kind(r.res) = "Err" THEN [res |-> r.res, i |-> r.i, data |-> data] ELSE Go(r)
TryCD(r, cipher, data, Go(_)) ==
    IF Kind(r.res) = "Err"
    THEN [res |-> r.res, i |-> r.i, cipher |-> cipher, data |-> data]
    ELSE Go(r)
TryRD(r, data, Go(_)) ==
    IF Kind(r.res) = "Err"
    THEN [res |-> r.res, i |-> r.i, cipher |-> r.cipher, data |-> data]
    ELSE Go(r)

RECURSIVE read_string_loop(_, _, _, _, _)
read_string_loop(x, i, cipher, key_opt, value_opt) ==
    LET e == NextEvent(x, i)
    IN  IF NextFails(e) THEN [res |-> XmlSyntaxError, i |-> i, cipher |-> cipher]
        ELSE CASE e[1] = "start" /\ e[2] = KEY_TAG ->
               TryC(read_string_key_opt(x, i + 1), cipher,
                  LAMBDA r : read_string_loop(x, r.i, cipher, Args(r.res), value_opt))
          [] e[1] = "start" /\ e[2] = VALUE_TAG ->
               Try(read_string_value_opt(x, i + 1, cipher, e[3]),
                 LAMBDA r : read_string_loop(x, r.i, r.cipher, key_opt, Args(r.res)))
          [] e[1] = "end" /\ e[2] = STRING_TAG ->
               IF ~IsSome(key_opt)
             THEN [res |-> Err("XmlError", <<"Key element not found">>),
                   i |-> i + 1, cipher |-> cipher]
             ELSE IF ~IsSome(value_opt)
             THEN [res |-> Err("XmlError", <<"Value element not found">>),
                   i |-> i + 1, cipher |-> cipher]
             ELSE [res |-> Ok(<<Unwrap(key_opt), Unwrap(value_opt)>>),
                   i |-> i + 1, cipher |-> cipher]
          [] OTHER -> read_string_loop(x, i + 1, cipher, key_opt, value_opt)
read_string(x, i, cipher) == read_string_loop(x, i, cipher, NoneV, NoneV)

RECURSIVE read_binary_loop(_, _, _, _, _)
read_binary_loop(x, i, cipher, key_opt, value_opt) ==
    LET e == NextEvent(x, i)
    IN  IF NextFails(e) THEN [res |-> XmlSyntaxError, i |-> i, cipher |-> cipher]
        ELSE CASE e[1] = "start" /\ e[2] = KEY_TAG ->
               TryC(read_binary_key_opt(x, i + 1), cipher,
                  LAMBDA r : read_binary_loop(x, r.i, cipher, Args(r.res), value_opt))
          [] e[1] = "start" /\ e[2] = VALUE_TAG ->
               Try(read_binary_value_opt(x, i + 1, cipher, e[3]),
                 LAMBDA r : read_binary_loop(x, r.i, r.cipher, key_opt, Args(r.res)))
          [] e[1] = "end" /\ e[2] = BINARY_TAG ->
               IF ~IsSome(key_opt)
             THEN [res |-> Err("XmlError", <<"Key element not found">>),
                   i |-> i + 1, cipher |-> cipher]
             ELSE IF ~IsSome(value_opt)
             THEN [res |-> Err("XmlError", <<"Value element not found">>),
                   i |-> i + 1, cipher |-> cipher]
             ELSE [res |-> Ok(<<Unwrap(key_opt), Unwrap(value_opt)>>),
                   i |-> i + 1, cipher |-> cipher]
          [] OTHER -> read_binary_loop(x, i + 1, cipher, key_opt, value_opt)
read_binary(x, i, cipher) == read_binary_loop(x, i, cipher, NoneV, NoneV)

\* read_entry and read_history.  The entries of a History element are read
\* in the History state, in which a nested History tag is an event like any
\* other; they are kept with the entry whose History element holds them.
RECURSIVE read_entry_loop(_, _, _, _, _)
RECURSIVE read_history_loop(_, _, _, _)
\* Variant: the History element of an entry is skipped without reading
\* its entries.
HistorySkipped(x, i, cipher, node, state) == read_entry_loop(x, i, cipher, node, state)
ReadHistoryOf(x, i, cipher, node, state) ==
    IF state = "Active"
    THEN Try(read_history_loop(x, i, cipher, <<>>),
             LAMBDA r : read_entry_loop(x, r.i, r.cipher,
                    [node EXCEPT !.history = @ \o Args(r.res)], state))
    ELSE read_entry_loop(x, i, cipher, node, state)
read_entry_loop(x, i, cipher, node, state) ==
    LET e == NextEvent(x, i)
    IN  IF NextFails(e) THEN [res |-> XmlSyntaxError, i |-> i, cipher |-> cipher]
        ELSE CASE e[1] = "start" /\ e[2] = BINARY_TAG ->
               Try(read_binary(x, i + 1, cipher),
                 LAMBDA r : read_entry_loop(x, r.i, r.cipher,
                        [node EXCEPT !.binaries =
                            MapInsert(@, Args(r.res)[1], Args(r.res)[2])], state))
          [] e[1] = "start" /\ e[2] = HISTORY_TAG ->
               ReadHistoryOf(x, i + 1, cipher, node, state)
          [] e[1] = "start" /\ e[2] = STRING_TAG ->
               Try(read_string(x, i + 1, cipher),
                 LAMBDA r : read_entry_loop(x, r.i, r.cipher,
                        [node EXCEPT !.strings =
                            MapInsert(@, Args(r.res)[1], Args(r.res)[2])], state))
          [] e[1] = "start" /\ e[2] = UUID_TAG ->
               TryC(read_uuid(x, i + 1), cipher,
                  LAMBDA r : read_entry_loop(x, r.i, cipher,
                        [node EXCEPT !.uuid = Args(r.res)], state))
          [] e[1] = "end" /\ e[2] = ENTRY_TAG ->
               [res |-> Ok(node), i |-> i + 1, cipher |-> cipher]
          [] OTHER -> read_entry_loop(x, i + 1, cipher, node, state)
read_entry(x, i, cipher, state) == read_entry_loop(x, i, cipher, EntryDefault, state)
read_history_loop(x, i, cipher, list) ==
    LET e == NextEvent(x, i)
    IN  IF NextFails(e) THEN [res |-> XmlSyntaxError, i |-> i, cipher |-> cipher]
        ELSE CASE e[1] = "start" /\ e[2] = ENTRY_TAG ->
               Try(read_entry(x, i + 1, cipher, "History"),
                 LAMBDA r : read_history_loop(x, r.i, r.cipher, Append(list, Args(r.res))))
          [] e[1] = "end" /\ e[2] = HISTORY_TAG ->
               [res |-> Ok(list), i |-> i + 1, cipher |-> cipher]
          [] OTHER -> read_history_loop(x, i + 1, cipher, list)
read_history(x, i, cipher) == read_history_loop(x, i, cipher, <<>>)

\* read_times, for a group.
RECURSIVE read_times(_, _, _)
read_times(x, i, node) ==
    LET e == NextEvent(x, i)
    IN  IF NextFails(e) THEN [res |-> XmlSyntaxError, i |-> i]
        ELSE CASE e[1] = "start" /\ e[2] = CREATION_TIME_TAG ->
               Try(read_datetime(x, i + 1),
                 LAMBDA r : read_times(x, r.i, [node EXCEPT !.creation_time = Args(r.res)]))
          [] e[1] = "start" /\ e[2] = USAGE_COUNT_TAG ->
               Try(read_i32(x, i + 1),
                 LAMBDA r : read_times(x, r.i, [node EXCEPT !.usage_count = Args(r.res)]))
          [] e[1] = "end" /\ e[2] = TIMES_TAG ->
               [res |-> Ok(node), i |-> i + 1]
          [] OTHER -> read_times(x, i + 1, node)

RECURSIVE read_group_loop(_, _, _, _)
read_group_loop(x, i, cipher, node) ==
    LET e == NextEvent(x, i)
    IN  IF NextFails(e) THEN [res |-> XmlSyntaxError, i |-> i, cipher |-> cipher]
        ELSE CASE e[1] = "start" /\ e[2] = ICON_ID_TAG ->
               TryC(read_icon(x, i + 1), cipher,
                  LAMBDA r : read_group_loop(x, r.i, cipher, [node EXCEPT !.icon = Args(r.res)]))
          [] e[1] = "start" /\ e[2] = IS_EXPANDED_TAG ->
               TryC(read_bool(x, i + 1), cipher,
                  LAMBDA r : read_group_loop(x, r.i, cipher,
                        [node EXCEPT !.is_expanded = Args(r.res)]))
          [] e[1] = "start" /\ e[2] = TIMES_TAG ->
               TryC(read_times(x, i + 1, node), cipher,
                  LAMBDA r : read_group_loop(x, r.i, cipher, Args(r.res)))
          [] e[1] = "start" /\ e[2] = CUSTOM_ICON_UUID_TAG ->
               TryC(read_custom_icon_uuid_opt(x, i + 1), cipher,
                  LAMBDA r : read_group_loop(x, r.i, cipher,
                        [node EXCEPT !.custom_icon_uuid = Args(r.res)]))
          [] e[1] = "start" /\ e[2] = ENTRY_TAG ->
               Try(read_entry(x, i + 1, cipher, "Active"),
                 LAMBDA r : read_group_loop(x, r.i, r.cipher,
                        [node EXCEPT !.entries = Append(@, Args(r.res))]))
          [] e[1] = "start" /\ e[2] = GROUP_TAG ->
               Try(read_group_loop(x, i + 1, cipher, GroupDefault),
                 LAMBDA r : read_group_loop(x, r.i, r.cipher,
                        [node EXCEPT !.groups = Append(@, Args(r.res))]))
          [] e[1] = "start" /\ e[2] = NAME_TAG ->
               TryC(xml_read_string(x, i + 1), cipher,
                  LAMBDA r : read_group_loop(x, r.i, cipher,
                        [node EXCEPT !.name = Args(r.res)]))
          [] e[1] = "start" /\ e[2] = UUID_TAG ->
               TryC(read_uuid(x, i + 1), cipher,
                  LAMBDA r : read_group_loop(x, r.i, cipher,
                        [node EXCEPT !.uuid = Args(r.res)]))
          [] e[1] = "end" /\ e[2] = GROUP_TAG ->
               [res |-> Ok(node), i |-> i + 1, cipher |-> cipher]
          [] OTHER -> read_group_loop(x, i + 1, cipher, node)
read_group(x, i, cipher) == read_group_loop(x, i, cipher, GroupDefault)

RECURSIVE read_root(_, _, _, _)
read_root(x, i, cipher, data) ==
    LET e == NextEvent(x, i)
    IN  IF NextFails(e)
        THEN [res |-> XmlSyntaxError, i |-> i, cipher |-> cipher, data |-> data]
        ELSE CASE e[1] = "start" /\ e[2] = GROUP_TAG ->
               TryRD(read_group(x, i + 1, cipher), data,
                   LAMBDA r : read_root(x, r.i, r.cipher,
                        [data EXCEPT !.root_group = Some(Args(r.res))]))
          [] e[1] = "end" /\ e[2] = ROOT_TAG ->
               [res |-> Ok(<<>>), i |-> i + 1, cipher |-> cipher, data |-> data]
          [] OTHER -> read_root(x, i + 1, cipher, data)

\* xml::read_gzip: the decoded bytes, decompressed.
GzipOfBinary(r) ==
    IF Kind(r.res) = "Err" THEN r
    ELSE IF ~IsSome(Args(r.res)) THEN [r EXCEPT !.res = Ok(<<>>)]
    ELSE [r EXCEPT !.res = GzipDecode(Unwrap(Args(r.res)))]
read_gzip(x, i) == GzipOfBinary(read_binary_opt(x, i))

get_id_attr_value(attrs) ==
    IF IsSome(search_attr_value(attrs, "id")) THEN Ok(Unwrap(search_attr_value(attrs, "id")))
    ELSE Err("XmlError", <<"Attribute ID not found">>)
get_compressed_attr_value(attrs) == ParseBoolAttr(attrs, "compressed")

\* read_binaries: the table of the binaries of the database, by id.
ReadTableBinary(x, i, attrs) ==
    IF Kind(get_id_attr_value(attrs)) = "Err" THEN [res |-> get_id_attr_value(attrs), i |-> i]
    ELSE IF Kind(get_compressed_attr_value(attrs)) = "Err"
    THEN [res |-> get_compressed_attr_value(attrs), i |-> i]
    ELSE IF Args(get_compressed_attr_value(attrs)) THEN read_gzip(x, i)
    ELSE xml_read_binary(x, i)
RECURSIVE read_binaries(_, _, _)
read_binaries(x, i, map) ==
    LET e == NextEvent(x, i)
    IN  IF NextFails(e) THEN [res |-> XmlSyntaxError, i |-> i]
        ELSE CASE e[1] = "start" /\ e[2] = BINARY_TAG ->
               Try(ReadTableBinary(x, i + 1, e[3]),
                 LAMBDA r : read_binaries(x, r.i,
                        MapInsert(map, Args(get_id_attr_value(e[3])), Args(r.res))))
          [] e[1] = "end" /\ e[2] = BINARIES_TAG ->
               [res |-> Ok(map), i |-> i + 1]
          [] OTHER -> read_binaries(x, i + 1, map)

RECURSIVE read_meta(_, _, _)
read_meta(x, i, data) ==
    LET e == NextEvent(x, i)
    IN  IF NextFails(e) THEN [res |-> XmlSyntaxError, i |-> i, data |-> data]
        ELSE CASE e[1] = "start" /\ e[2] = BINARIES_TAG ->
               TryD(read_binaries(x, i + 1, EmptyMap), data,
                  LAMBDA r : read_meta(x, r.i, [data EXCEPT !.binaries = Args(r.res)]))
          [] e[1] = "start" /\ e[2] = DATABASE_NAME_TAG ->
               TryD(xml_read_string(x, i + 1), data,
                  LAMBDA r : read_meta(x, r.i, [data EXCEPT !.name = Args(r.res)]))
          [] e[1] = "start" /\ e[2] = GENERATOR_TAG ->
               TryD(xml_read_string(x, i + 1), data,
                  LAMBDA r : read_meta(x, r.i, [data EXCEPT !.generator = Args(r.res)]))
          [] e[1] = "start" /\ e[2] = HEADER_HASH_TAG ->
               TryD(xml_read_binary(x, i + 1), data,
                  LAMBDA r : read_meta(x, r.i,
                        [data EXCEPT !.header_hash = Some(Args(r.res))]))
          [] e[1] = "end" /\ e[2] = META_TAG ->
               [res |-> Ok(<<>>), i |-> i + 1, data |-> data]
          [] OTHER -> read_meta(x, i + 1, data)

RECURSIVE read_kee_pass_file(_, _, _, _)
read_kee_pass_file(x, i, cipher, data) ==
    LET e == NextEvent(x, i)
    IN  IF NextFails(e)
        THEN [res |-> XmlSyntaxError, i |-> i, cipher |-> cipher, data |-> data]
        ELSE CASE e[1] = "start" /\ e[2] = META_TAG ->
               TryCD(read_meta(x, i + 1, data), cipher, data,
                   LAMBDA r : read_kee_pass_file(x, r.i, cipher, r.data))
          [] e[1] = "start" /\ e[2] = ROOT_TAG ->
               Try(read_root(x, i + 1, cipher, data),
                 LAMBDA r : read_kee_pass_file(x, r.i, r.cipher, r.data))
          [] e[1] = "end" /\ e[2] = KEE_PASS_FILE_TAG ->
               [res |-> Ok(<<>>), i |-> i + 1, cipher |-> cipher, data |-> data]
          [] OTHER -> read_kee_pass_file(x, i + 1, cipher, data)

\* read: the document's events up to EndDocument.  A document without a root
\* element is a syntax error of the parser.
RECURSIVE xml_read_loop(_, _, _, _, _)
AfterKeePassFile(x, r) ==
    IF Kind(r.res) = "Err" THEN r.res ELSE xml_read_loop(x, r.i, r.cipher, r.data, TRUE)
xml_read_loop(x, i, cipher, data, seen_root) ==
    LET e == NextEvent(x, i)
    IN  IF e[1] = "eof" THEN (IF seen_root THEN Ok(data) ELSE XmlSyntaxError)
        ELSE IF e[1] = "bad" THEN XmlSyntaxError
        ELSE IF e[1] = "start"
        THEN IF e[2] = KEE_PASS_FILE_TAG
             THEN AfterKeePassFile(x, read_kee_pass_file(x, i + 1, cipher, data))
             ELSE Err("XmlError", <<"Invalid root node">>)
        ELSE xml_read_loop(x, i + 1, cipher, data, seen_root)
xml_read(x, stream_key) == xml_read_loop(x, 1, new_cipher(stream_key), XmlDataDefault, FALSE)

(***************************************************************************)
(* kdb2_xml_writer.rs and the writers of xml.rs                            *)
(***************************************************************************)
\* write_string_tag: an empty string writes no character data.
IsEmptyText(text) == (text[1] = "str" /\ text[2] = "") \/ (text[1] = "b64" /\ text[2] = <<>>)
write_string_tag(tag, value) ==
    <<StartEl(tag, <<>>)>> \o (IF IsEmptyText(value) THEN <<>> ELSE <<Chars(value)>>)
        \o <<EndEl(tag)>>
write_binary_tag(tag, value) == write_string_tag(tag, Base64Encode(value))
write_uuid_tag(tag, uuid) == write_binary_tag(tag, uuid)

\* The order in which the strings of an entry are written.
KeyOrder == << <<"Title", "">>, <<"Password", "">>, <<"Other", "k">> >>

write_string_section(cipher, string_key, value) ==
    LET head == <<StartEl(STRING_TAG, <<>>)>> \o write_string_tag(KEY_TAG, to_string(string_key))
    IN  IF value[1] = "Plain"
        THEN [ev |-> head \o write_string_tag(VALUE_TAG, value[2]) \o <<EndEl(STRING_TAG)>>,
              cipher |-> cipher]
        ELSE LET plain == Utf8(value[2])
                 encrypted == salsa20_encrypt(cipher, plain)
             IN  [ev |-> head \o <<StartEl(VALUE_TAG, << <<"Protected", "True">> >>)>>
                        \o (IF encrypted = <<>> THEN <<>>
                            ELSE <<Chars(Base64Encode(encrypted))>>)
                        \o <<EndEl(VALUE_TAG), EndEl(STRING_TAG)>>,
                  cipher |-> Advance(cipher, Len(plain))]

\* The events of two writes in a row: the second goes on with the cipher the
\* first has left.
Written(a, b) == [ev |-> a.ev \o b.ev, cipher |-> b.cipher]
AndThen(a, Go(_)) == Written(a, Go(a.cipher))
\* The events of a write between a start and an end of an element.
Section(head, r, tail) == [ev |-> head \o r.ev \o tail, cipher |-> r.cipher]

\* The order in which a HashMap hands out its keys differs from run to run:
\* hash_order says whether the keys come in the order listed or in reverse.
BinaryOrder == <<Str("a"), Str("b")>>
RECURSIVE Reverse(_)
Reverse(seq) == IF seq = <<>> THEN <<>> ELSE Append(Reverse(Tail(seq)), Head(seq))
Iteration(keys, hash_order) == IF hash_order = "forward" THEN keys ELSE Reverse(keys)

write_binary_section(cipher, binary_key, value) ==
    LET head == <<StartEl(BINARY_TAG, <<>>)>> \o write_string_tag(KEY_TAG, binary_key)
    IN  CASE value[1] = "Plain" ->
                [ev |-> head \o write_binary_tag(VALUE_TAG, value[2]) \o <<EndEl(BINARY_TAG)>>,
                 cipher |-> cipher]
          [] value[1] = "Protected" ->
                [ev |-> head \o <<StartEl(VALUE_TAG, << <<"Protected", "True">> >>)>>
                        \o (IF value[2] = <<>> THEN <<>>
                            ELSE <<Chars(Base64Encode(salsa20_encrypt(cipher, value[2])))>>)
                        \o <<EndEl(VALUE_TAG), EndEl(BINARY_TAG)>>,
                 cipher |-> Advance(cipher, Len(value[2]))]
          [] value[1] = "Ref" ->
                [ev |-> head \o <<StartEl(VALUE_TAG, << <<"Ref", value[2]>> >>),
                                  EndEl(VALUE_TAG), EndEl(BINARY_TAG)>>,
                 cipher |-> cipher]

RECURSIVE write_binaries(_, _, _)
write_binaries(cipher, binaries, keys) ==
    IF keys = <<>> THEN [ev |-> <<>>, cipher |-> cipher]
    ELSE IF Head(keys) \notin DOMAIN binaries THEN write_binaries(cipher, binaries, Tail(keys))
    ELSE AndThen(write_binary_section(cipher, Head(keys), binaries[Head(keys)]),
                 LAMBDA c : write_binaries(c, binaries, Tail(keys)))

RECURSIVE write_strings(_, _, _)
write_strings(cipher, strings, keys) ==
    IF keys = <<>> THEN [ev |-> <<>>, cipher |-> cipher]
    ELSE IF Head(keys) \notin DOMAIN strings THEN write_strings(cipher, strings, Tail(keys))
    ELSE AndThen(write_string_section(cipher, Head(keys), strings[Head(keys)]),
                 LAMBDA c : write_strings(c, strings, Tail(keys)))

\* write_entry_section and write_history_section.  The history of an entry
\* is written inside the entry, after its binaries and strings, and only
\* for an entry in the Active state.
RECURSIVE write_entry_section(_, _, _, _)
RECURSIVE write_history_entries(_, _, _)
write_history_section(cipher, entries, hash_order) ==
    Section(<<StartEl(HISTORY_TAG, <<>>)>>,
            write_history_entries(cipher, entries, hash_order),
            <<EndEl(HISTORY_TAG)>>)
EntryTail(cipher, entry, state, hash_order) ==
    IF state = "Active" THEN write_history_section(cipher, entry.history, hash_order)
    ELSE [ev |-> <<>>, cipher |-> cipher]
write_entry_section(cipher, entry, state, hash_order) ==
    Section(<<StartEl(ENTRY_TAG, <<>>)>> \o write_uuid_tag(UUID_TAG, entry.uuid),
            AndThen(write_binaries(cipher, entry.binaries, Iteration(BinaryOrder, hash_order)),
                    LAMBDA c : AndThen(
                        write_strings(c, entry.strings, Iteration(KeyOrder, hash_order)),
                        LAMBDA c2 : EntryTail(c2, entry, state, hash_order))),
            <<EndEl(ENTRY_TAG)>>)
write_history_entries(cipher, entries, hash_order) ==
    IF entries = <<>> THEN [ev |-> <<>>, cipher |-> cipher]
    ELSE AndThen(write_entry_section(cipher, Head(entries), "History", hash_order),
                 LAMBDA c : write_history_entries(c, Tail(entries), hash_order))

RECURSIVE write_entries(_, _, _)
write_entries(cipher, entries, hash_order) ==
    IF entries = <<>> THEN [ev |-> <<>>, cipher |-> cipher]
    ELSE AndThen(write_entry_section(cipher, Head(entries), "Active", hash_order),
                 LAMBDA c : write_entries(c, Tail(entries), hash_order))

\* The fields write_group_section writes for a group, before its entries.
write_i32_tag(tag, value) == write_string_tag(tag, FormatI32(value))
write_bool_tag(tag, value) == write_string_tag(tag, Str(IF value THEN "true" ELSE "false"))
write_datetime_tag(tag, value) == write_string_tag(tag, FormatDateTime(value))
write_times_section(node) ==
    <<StartEl(TIMES_TAG, <<>>)>>
        \o write_datetime_tag(CREATION_TIME_TAG, node.creation_time)
        \o write_i32_tag(USAGE_COUNT_TAG, node.usage_count)
        \o <<EndEl(TIMES_TAG)>>
GroupFields(group) ==
    write_uuid_tag(UUID_TAG, group.uuid)
        \o write_i32_tag(ICON_ID_TAG, group.icon)
        \o write_bool_tag(IS_EXPANDED_TAG, group.is_expanded)
        \o write_string_tag(NAME_TAG, group.name)
        \o write_times_section(group)

RECURSIVE write_group_section(_, _, _)
RECURSIVE write_groups(_, _, _)
write_group_section(cipher, group, hash_order) ==
    Section(<<StartEl(GROUP_TAG, <<>>)>> \o GroupFields(group),
            AndThen(write_entries(cipher, group.entries, hash_order),
                    LAMBDA c : write_groups(c, group.groups, hash_order)),
            <<EndEl(GROUP_TAG)>>)
write_groups(cipher, groups, hash_order) ==
    IF groups = <<>> THEN [ev |-> <<>>, cipher |-> cipher]
    ELSE AndThen(write_group_section(cipher, Head(groups), hash_order),
                 LAMBDA c : write_groups(c, Tail(groups), hash_order))

write_root_section(cipher, d, hash_order) ==
    <<StartEl(ROOT_TAG, <<>>)>> \o write_group_section(cipher, d.root_group, hash_order).ev
        \o <<EndEl(ROOT_TAG)>>

\* The generator write_meta_section writes.
WrittenGenerator(d) == Str(GENERATOR_NAME)
\* write_binaries_section: every binary of the table, compressed.
IdOrder == <<"0", "1">>
RECURSIVE write_table_binaries(_, _)
write_table_binaries(binaries, ids) ==
    IF ids = <<>> THEN <<>>
    ELSE IF Head(ids) \notin DOMAIN binaries THEN write_table_binaries(binaries, Tail(ids))
    ELSE <<StartEl(BINARY_TAG, << <<"ID", Head(ids)>>, <<"Compressed", "True">> >>),
           Chars(Base64Encode(GzipEncode(binaries[Head(ids)]))),
           EndEl(BINARY_TAG)>>
         \o write_table_binaries(binaries, Tail(ids))
write_binaries_section(binaries, hash_order) ==
    <<StartEl(BINARIES_TAG, <<>>)>> \o write_table_binaries(binaries, Iteration(IdOrder, hash_order))
        \o <<EndEl(BINARIES_TAG)>>
write_meta_section(d, hash, hash_order) ==
    <<StartEl(META_TAG, <<>>)>>
        \o write_binaries_section(d.binaries, hash_order)
        \o write_string_tag(DATABASE_NAME_TAG, d.name)
        \o write_string_tag(GENERATOR_TAG, WrittenGenerator(d))
        \o write_binary_tag(HEADER_HASH_TAG, hash)
        \o <<EndEl(META_TAG)>>

write_kee_pass_file_section(d, hash, cipher, hash_order) ==
    <<StartEl(KEE_PASS_FILE_TAG, <<>>)>> \o write_meta_section(d, hash, hash_order)
        \o write_root_section(cipher, d, hash_order) \o <<EndEl(KEE_PASS_FILE_TAG)>>
xml_write(d, hash, stream_key, hash_order) ==
    write_kee_pass_file_section(d, hash, new_cipher(stream_key), hash_order)

(***************************************************************************)
(* kdb2_writer.rs                                                          *)
(***************************************************************************)
\* write_header_id, write_header_size and the data of one header record.
HeaderRecord(id, size, data) == LE(id, 1) \o LE(size % 65536, 2) \o data

write_comment(opt) ==
    IF IsSome(opt) THEN HeaderRecord(COMMENT_HID, Len(Unwrap(opt)), Unwrap(opt)) ELSE <<>>
write_master_cipher(cipher) == HeaderRecord(MASTER_CIPHER_HID, MASTER_CIPHER_SIZE, AES_CIPHER_ID)
write_compression(compression) ==
    HeaderRecord(COMPRESSION_HID, COMPRESSION_SIZE,
                 LE(IF compression = "None" THEN 0 ELSE 1, 4))
write_master_seed(seed) == HeaderRecord(MASTER_SEED_HID, MASTER_SEED_SIZE, seed)
write_transform_seed(seed) == HeaderRecord(TRANSFORM_SEED_HID, TRANSFORM_SEED_SIZE, seed)
write_transform_rounds(rounds) ==
    HeaderRecord(TRANSFORM_ROUNDS_HID, TRANSFORM_ROUNDS_SIZE, LE(rounds, 8))
write_master_iv(iv) == HeaderRecord(MASTER_IV_HID, MASTER_IV_SIZE, iv)
write_protected_stream_key(k) ==
    HeaderRecord(PROTECTED_STREAM_KEY_HID, PROTECTED_STREAM_KEY_SIZE, k)
write_stream_cipher(cipher) == HeaderRecord(STREAM_CIPHER_HID, STREAM_CIPHER_SIZE, LE(2, 4))
write_stream_start_bytes(bytes) ==
    HeaderRecord(STREAM_START_BYTES_HID, STREAM_START_BYTES_SIZE, bytes)
write_end_header == HeaderRecord(END_HID, 0, <<>>)
write_version(v) == LE(v.minor, 2) \o LE(v.major, 2)

write_block(id, data) ==
    LE(id, 4) \o Sha256(data) \o LE(Len(data), 4) \o data
write_block_final(id) == LE(id, 4) \o FINAL_BLOCK_HASH \o LE(0, 4)

\* What differs from one save to the next: the random values RandomGen
\* draws with seed r, and the iteration order of the hash maps.
Random(r) == [transform_seed |-> Fill(32, 10 + r), master_iv |-> Fill(16, 20 + r),
              master_seed |-> Fill(32, 30 + r), protected_stream_key |-> Fill(32, 40 + r),
              stream_start_bytes |-> Fill(32, 50 + r),
              hash_order |-> IF r % 2 = 0 THEN "forward" ELSE "reverse"]

\* Variant: the stream start bytes are written before the stream cipher.
WriteHeadersSwapped(d, rnd) ==
    DB_SIGNATURE \o KDB2_SIGNATURE \o write_version(d.version)
        \o write_comment(d.comment)
        \o write_master_cipher(d.master_cipher)
        \o write_compression(d.compression)
        \o write_master_seed(rnd.master_seed)
        \o write_transform_seed(rnd.transform_seed)
        \o write_transform_rounds(d.transform_rounds)
        \o write_master_iv(rnd.master_iv)
        \o write_protected_stream_key(rnd.protected_stream_key)
        \o write_stream_start_bytes(rnd.stream_start_bytes)
        \o write_stream_cipher(d.stream_cipher)
        \o write_end_header
\* The bytes written up to and including the end header.
WriteHeaders(d, rnd) ==
    DB_SIGNATURE \o KDB2_SIGNATURE \o write_version(d.version)
        \o write_comment(d.comment)
        \o write_master_cipher(d.master_cipher)
        \o write_compression(d.compression)
        \o write_master_seed(rnd.master_seed)
        \o write_transform_seed(rnd.transform_seed)
        \o write_transform_rounds(d.transform_rounds)
        \o write_master_iv(rnd.master_iv)
        \o write_protected_stream_key(rnd.protected_stream_key)
        \o write_stream_cipher(d.stream_cipher)
        \o write_stream_start_bytes(rnd.stream_start_bytes)
        \o write_end_header

\* The hash write stores in the XML: SHA-256 of the bytes logged so far.
WrittenHeaderHash(d, rnd) == Sha256(WriteHeaders(d, rnd))

WriteKey(d, rnd) ==
    MasterKey(rnd.master_seed,
              TransformedKey(d.composite_key, rnd.transform_seed, d.transform_rounds))

WritePayload(d, rnd) ==
    LET xml_bytes == xml_write(d, WrittenHeaderHash(d, rnd), StreamKey(rnd.protected_stream_key),
                                  rnd.hash_order)
    IN  rnd.stream_start_bytes
            \o write_block(0, Compress(d.compression, xml_bytes))
            \o write_block_final(1)

\* kdb2_writer::write: everything the writer receives.
Write(d, rnd) ==
    WriteHeaders(d, rnd) \o AesEncrypt(WriteKey(d, rnd), rnd.master_iv, WritePayload(d, rnd))

(***************************************************************************)
(* The databases saved and the files opened                                *)
(***************************************************************************)
MaxSeed == 1
MaxGood == 2
MaxMissing == 2
MaxHistory == 1

Keys == {"key1", "key2"}

Entry1 == [uuid |-> Uuid(3),
           strings |-> MapInsert(MapInsert(EmptyMap, <<"Title", "">>, <<"Plain", Str("t1")>>),
                                 <<"Password", "">>, <<"Protected", Str("pw")>>),
           binaries |-> EmptyMap, history |-> <<>>]
\* The time the groups of the model were made.
Created == <<"time", "created">>
SubGroup == [GroupNew(Str("sub"), Uuid(2)) EXCEPT !.creation_time = Created]
RootGroups == {[GroupNew(Str(ROOT_GROUP_NAME), Uuid(1)) EXCEPT
                    !.creation_time = Created, !.custom_icon_uuid = icon,
                    !.entries = es, !.groups = gs] :
               icon \in {NoneV, Some(Uuid(9))}, es \in {<<>>, <<Entry1>>},
               gs \in {<<>>, <<SubGroup>>}}

\* The values of a Database the model carries.
Databases ==
    {[comment |-> c, composite_key |-> k, compression |-> z, master_cipher |-> "Aes256",
      stream_cipher |-> "Salsa20", transform_rounds |-> 2,
      version |-> [major |-> KDB2_MAJOR_VERSION, minor |-> KDB2_MINOR_VERSION],
      generator |-> g, name |-> Str("db"), root_group |-> r, binaries |-> EmptyMap] :
     c \in {NoneV, Some(Bytes(<<1, 2, 3>>))}, k \in {"key1"}, z \in {"None", "GZip"},
     g \in {Str(GENERATOR_NAME), Str("KeePass")}, r \in RootGroups}

BaseDb == CHOOSE d \in Databases :
            /\ d.comment = Some(Bytes(<<1, 2, 3>>)) /\ d.compression = "GZip"
            /\ d.generator = Str(GENERATOR_NAME)
            /\ d.root_group.custom_icon_uuid = NoneV
            /\ d.root_group.entries = <<Entry1>> /\ d.root_group.groups = <<>>
BaseRandom == Random(0)

\* A header record of a file: <<id, size field, data>>.
BaseRecords ==
    << <<COMMENT_HID, 3, Bytes(<<1, 2, 3>>)>>,
       <<MASTER_CIPHER_HID, MASTER_CIPHER_SIZE, AES_CIPHER_ID>>,
       <<COMPRESSION_HID, COMPRESSION_SIZE, LE(1, 4)>>,
       <<MASTER_SEED_HID, MASTER_SEED_SIZE, BaseRandom.master_seed>>,
       <<TRANSFORM_SEED_HID, TRANSFORM_SEED_SIZE, BaseRandom.transform_seed>>,
       <<TRANSFORM_ROUNDS_HID, TRANSFORM_ROUNDS_SIZE, LE(2, 8)>>,
       <<MASTER_IV_HID, MASTER_IV_SIZE, BaseRandom.master_iv>>,
       <<PROTECTED_STREAM_KEY_HID, PROTECTED_STREAM_KEY_SIZE, BaseRandom.protected_stream_key>>,
       <<STREAM_CIPHER_HID, STREAM_CIPHER_SIZE, LE(2, 4)>>,
       <<STREAM_START_BYTES_HID, STREAM_START_BYTES_SIZE, BaseRandom.stream_start_bytes>>,
       <<END_HID, 0, <<>> >> >>

RECURSIVE RecordsBytes(_)
RecordsBytes(recs) ==
    IF recs = <<>> THEN <<>>
    ELSE HeaderRecord(recs[1][1], recs[1][2], recs[1][3]) \o RecordsBytes(Tail(recs))

HeaderBytes(sig1, sig2, recs) ==
    sig1 \o sig2 \o write_version(BaseDb.version) \o RecordsBytes(recs)

\* The document of BaseDb with the HeaderHash element replaced by hh.
RECURSIVE IndexOfStart(_, _, _)
IndexOfStart(x, tag, i) ==
    IF i > Len(x) THEN 0
    ELSE IF x[i][2][1] = "start" /\ x[i][2][2] = tag THEN i
    ELSE IndexOfStart(x, tag, i + 1)
BaseXml(hash) ==
    xml_write(BaseDb, hash, StreamKey(BaseRandom.protected_stream_key), BaseRandom.hash_order)
ReplaceAt(x, i, el) == SubSeq(x, 1, i - 1) \o el \o SubSeq(x, i + 3, Len(x))
ReplaceHeaderHash(x, el) == ReplaceAt(x, IndexOfStart(x, HEADER_HASH_TAG, 1), el)
XmlWith(hash, hh) ==
    LET el == CASE hh = "right" -> write_binary_tag(HEADER_HASH_TAG, hash)
                [] hh = "wrong" -> write_binary_tag(HEADER_HASH_TAG, Fill(32, 7))
                [] hh = "short" -> write_binary_tag(HEADER_HASH_TAG, Take(hash, 31))
                [] hh = "empty" -> write_binary_tag(HEADER_HASH_TAG, <<>>)
                [] hh = "undecodable" -> write_string_tag(HEADER_HASH_TAG, Str("!"))
                [] hh = "absent" -> <<>>
    IN  ReplaceHeaderHash(BaseXml(hash), el)
HeaderHashVariants == {"right", "wrong", "short", "empty", "undecodable", "absent"}

\* The j-th of m pieces of the document.
Piece(x, m, j) == SubSeq(x, ((j - 1) * Len(x)) \div m + 1, (j * Len(x)) \div m)

\* A block whose stored hash is the hash of the data before one byte of it
\* was changed.
FlippedBlock(id, data) ==
    LE(id, 4) \o Sha256(data) \o LE(Len(data), 4) \o <<B(0)>> \o Tail(data)

\* The shape of a block stream: good data blocks 0..good-1, then one last
\* element with the right or another id, then what follows it.
LastKinds == {"none", "data", "flipped", "final", "badfinal"}
Shapes == [good : 0..MaxGood, idok : BOOLEAN, last : LastKinds,
           trailing : {"none", "garbage", "final"}]
RECURSIVE GoodBlocks(_, _, _, _)
GoodBlocks(z, x, m, n) ==
    IF n = 0 THEN <<>>
    ELSE GoodBlocks(z, x, m, n - 1) \o write_block(n - 1, Compress(z, Piece(x, m, n)))
BlockStream(z, x, shape) ==
    LET n == shape.good
        m == IF shape.last \in {"data", "flipped"} THEN n + 1 ELSE n
        id == IF shape.idok THEN n ELSE n + 2
        next == IF shape.last \in {"data", "flipped"} THEN n + 1 ELSE n
    IN  GoodBlocks(z, x, m, n)
        \o (CASE shape.last = "none" -> <<>>
              [] shape.last = "data" -> write_block(id, Compress(z, Piece(x, m, m)))
              [] shape.last = "flipped" -> FlippedBlock(id, Compress(z, Piece(x, m, m)))
              [] shape.last = "final" -> write_block_final(id)
              [] shape.last = "badfinal" -> LE(id, 4) \o Fill(32, 1) \o LE(0, 4))
        \o (CASE shape.trailing = "none" -> <<>>
              [] shape.trailing = "garbage" -> Fill(5, 9)
              [] shape.trailing = "final" -> write_block_final(next))
WrittenShape == [good |-> 1, idok |-> TRUE, last |-> "final", trailing |-> "none"]

BaseKey == WriteKey(BaseDb, BaseRandom)
CompressionOf(recs) ==
    IF \E i \in 1..Len(recs) : recs[i][1] = COMPRESSION_HID /\ recs[i][3] = LE(0, 4)
    THEN "None" ELSE "GZip"

\* A file with the given signatures and header records whose payload holds
\* the document of BaseDb in a block stream of the given shape, encrypted
\* with the key and IV of the base records.
Plain(sig1, sig2, recs, hh, shape) ==
    LET hash == Sha256(HeaderBytes(sig1, sig2, recs))
    IN  BaseRandom.stream_start_bytes
            \o BlockStream(CompressionOf(recs), XmlWith(hash, hh), shape)
Encrypted(enc, plain) ==
    CASE enc = "right" -> AesEncrypt(BaseKey, BaseRandom.master_iv, plain)
      [] enc = "iv" -> AesEncrypt(BaseKey, Fill(16, 0), plain)
      [] enc = "short" -> AesEncrypt(BaseKey, BaseRandom.master_iv, Take(plain, 10))
      [] enc = "odd" -> Tail(AesEncrypt(BaseKey, BaseRandom.master_iv, plain))
      [] enc = "empty" -> <<>>
EncVariants == {"right", "iv", "short", "odd", "empty"}
File(sig1, sig2, recs, hh, shape, enc) ==
    HeaderBytes(sig1, sig2, recs) \o Encrypted(enc, Plain(sig1, sig2, recs, hh, shape))
RecsFile(recs) == File(DB_SIGNATURE, KDB2_SIGNATURE, recs, "right", WrittenShape, "right")

\* Header records: one record resized, records left out, an unknown record,
\* unsupported values.
Resized(id, size) ==
    [i \in 1..Len(BaseRecords) |->
        IF BaseRecords[i][1] = id THEN <<id, size, Fill(size, 5)>> ELSE BaseRecords[i]]
RECURSIVE Without(_, _)
Without(recs, ids) ==
    IF recs = <<>> THEN <<>>
    ELSE IF recs[1][1] \in ids THEN Without(Tail(recs), ids)
    ELSE <<recs[1]>> \o Without(Tail(recs), ids)
WithValue(id, data) ==
    [i \in 1..Len(BaseRecords) |->
        IF BaseRecords[i][1] = id THEN <<id, BaseRecords[i][2], data>> ELSE BaseRecords[i]]
ResizedRecords ==
    {Resized(id, HeaderSize(id) + d) : id \in RequiredHids, d \in {-1, 1}}
        \cup {Resized(COMMENT_HID, n) : n \in {0, 5}} \cup {Resized(END_HID, 4)}
MissingRecords ==
    {Without(BaseRecords, ids) :
        ids \in {m \in SUBSET (1..10) : Cardinality(m) \in 1..MaxMissing}}
OtherRecords ==
    {<< <<11, 1, Fill(1, 0)>> >> \o BaseRecords,
     WithValue(COMPRESSION_HID, LE(0, 4)), WithValue(COMPRESSION_HID, LE(2, 4)),
     WithValue(MASTER_CIPHER_HID, Fill(16, 0)), WithValue(STREAM_CIPHER_HID, LE(1, 4)),
     WithValue(TRANSFORM_ROUNDS_HID, LE(3, 8))}

SignatureFiles ==
    {File(s1, s2, BaseRecords, "right", WrittenShape, "right") :
        s1 \in {DB_SIGNATURE, KDB2_SIGNATURE},
        s2 \in {KDB1_SIGNATURE, KDB2_SIGNATURE, DB_SIGNATURE, Bytes(<<1, 2, 3, 4>>)}}
TruncatedFiles ==
    {Take(RecsFile(BaseRecords), n) : n \in {0, 2, 4, 6, 8, 10, 12, 13, 14, 16, 40}}
        \cup {Take(HeaderBytes(DB_SIGNATURE, KDB2_SIGNATURE, Resized(END_HID, 4)),
                   Len(HeaderBytes(DB_SIGNATURE, KDB2_SIGNATURE, BaseRecords)) + 2)}
HeaderFiles == {RecsFile(recs) : recs \in ResizedRecords \cup MissingRecords \cup OtherRecords}
PayloadFiles ==
    {File(DB_SIGNATURE, KDB2_SIGNATURE, BaseRecords, "right", shape, "right") :
        shape \in Shapes}
    \cup {File(DB_SIGNATURE, KDB2_SIGNATURE, BaseRecords, hh, WrittenShape, enc) :
            hh \in HeaderHashVariants, enc \in {"right"}}
    \cup {File(DB_SIGNATURE, KDB2_SIGNATURE, BaseRecords, "right", WrittenShape, enc) :
            enc \in EncVariants}
Files == SignatureFiles \cup TruncatedFiles \cup HeaderFiles \cup PayloadFiles

EmptyHeaders == [id \in 1..10 |-> NoneV]

\* Nothing has been read yet.
Fresh ==
    /\ key \in Keys
    /\ pos = 0
    /\ is_logging = TRUE
    /\ log_data = <<>>
    /\ version = [major |-> 0, minor |-> 0]
    /\ headers = EmptyHeaders
    /\ header_hash = <<>>
    /\ payload = <<>>
    /\ cur = 0
    /\ block_id = 0
    /\ xml = <<>>
    /\ xml_data = XmlDataDefault
    /\ result = Running
    /\ key_file = NoKeyFile
    /\ receiver = NoneV
    /\ curr = NoneV
    /\ todo = <<>>
    /\ yielded = <<>>
Unread == Fresh /\ Idle

\* Either a database about to be saved and then opened, or a file about to
\* be opened.
Init ==
    /\ \/ pc = "save" /\ db \in Databases /\ input = <<>>
       \/ pc = "open" /\ db = BaseDb /\ input \in Files
    /\ Unread

\* Database::save, then the file is handed to Database::open.
Save ==
    /\ pc = "save"
    /\ \E r \in 0..MaxSeed : input' = Write(db, Random(r))
    /\ pc' = "open"
    /\ UNCHANGED <<db, key, pos, is_logging, log_data, version, headers, header_hash,
                   payload, cur, block_id, xml, xml_data, result>>
    /\ UNCHANGED others

\* kdb2_reader::read, after the blocks: the XML reader over the document.
XmlRead(r) ==
    IF Kind(r) = "Err"
    THEN result' = r /\ pc' = "done" /\ UNCHANGED xml_data
    ELSE xml_data' = Args(r) /\ pc' = "check" /\ UNCHANGED result
ReadXml ==
    /\ pc = "xml"
    /\ XmlRead(xml_read(xml, StreamKey(Unwrap(headers[PROTECTED_STREAM_KEY_HID]))))
    /\ UNCHANGED <<db, input, key, pos, is_logging, log_data, version, headers,
                   header_hash, payload, cur, block_id, xml>>
    /\ UNCHANGED others

\* Variant: the stored header hash is not compared.
HeaderHashUnchecked(stored, computed) == TRUE
\* The comparison open_kdb2 makes when the XML holds a header hash.
HeaderHashOk(stored, computed) == stored = computed

\* GroupUuid::new_random and EntryUuid::new_random: a version 4 UUID, which
\* is never the nil UUID.
RandomUuids == {Uuid(201), Uuid(202)}
\* Variant: the group made when the document has none is the default group.
RootGroupDefaulted(root_group, uuid) ==
    IF IsSome(root_group) THEN Unwrap(root_group) ELSE GroupDefault
\* The root group of the opened database: the one the reader returned or,
\* without one, a new group named "Root".
RootGroupOf(root_group, uuid) ==
    IF IsSome(root_group) THEN Unwrap(root_group) ELSE GroupNew(Str(ROOT_GROUP_NAME), uuid)

\* Database::open_kdb2, after kdb2_reader::read returned.
OpenKdb2 ==
    /\ pc = "check"
    /\ IF IsSome(xml_data.header_hash)
          /\ ~HeaderHashOk(Unwrap(xml_data.header_hash), header_hash)
       THEN result' = Err("InvalidHeaderHash", <<>>)
       ELSE \E uuid \in IF IsSome(xml_data.root_group) THEN {NilUuid} ELSE RandomUuids :
            result' = Ok([comment |-> headers[COMMENT_HID],
                          composite_key |-> key,
                          compression |-> Unwrap(headers[COMPRESSION_HID]),
                          master_cipher |-> Unwrap(headers[MASTER_CIPHER_HID]),
                          stream_cipher |-> Unwrap(headers[STREAM_CIPHER_HID]),
                          transform_rounds |-> Unwrap(headers[TRANSFORM_ROUNDS_HID]),
                          version |-> version,
                          generator |-> xml_data.generator,
                          name |-> xml_data.name,
                          binaries |-> xml_data.binaries,
                          root_group |-> RootGroupOf(xml_data.root_group, uuid)])
    /\ pc' = "done"
    /\ UNCHANGED <<db, input, key, pos, is_logging, log_data, version, headers,
                   header_hash, payload, cur, block_id, xml, xml_data>>
    /\ UNCHANGED others

Next ==
    \/ Save
    \/ Open
    \/ ReadVersion
    \/ ReadHeader
    \/ FinishHeaders
    \/ DecryptPayload
    \/ ReadBlock
    \/ ReadXml
    \/ OpenKdb2

Spec == Init /\ [][Next]_vars

\* Documents that save does not write.  A document is put in a file with
\* the base header records, in one block followed by the final block.
DocumentFile(x) ==
    HeaderBytes(DB_SIGNATURE, KDB2_SIGNATURE, BaseRecords)
        \o AesEncrypt(BaseKey, BaseRandom.master_iv,
                      BaseRandom.stream_start_bytes
                          \o write_block(0, Compress(CompressionOf(BaseRecords), x))
                          \o write_block_final(1))
Document(root) ==
    <<StartEl(KEE_PASS_FILE_TAG, <<>>), StartEl(META_TAG, <<>>), EndEl(META_TAG)>>
        \o root \o <<EndEl(KEE_PASS_FILE_TAG)>>
BaseCipher == new_cipher(StreamKey(BaseRandom.protected_stream_key))

\* Documents without a Root element, with a Root element that holds no
\* Group, one Group or two Groups.
GroupA == [SubGroup EXCEPT !.entries = <<Entry1>>]
GroupB == [SubGroup EXCEPT !.uuid = Uuid(5), !.name = Str("two")]
RootKinds == {"absent", "empty", "one", "two"}
RootElement(kind) ==
    CASE kind = "absent" -> <<>>
      [] kind = "empty" -> <<StartEl(ROOT_TAG, <<>>), EndEl(ROOT_TAG)>>
      [] kind = "one" ->
            <<StartEl(ROOT_TAG, <<>>)>> \o write_group_section(BaseCipher, GroupA, "forward").ev
                \o <<EndEl(ROOT_TAG)>>
      [] kind = "two" ->
            <<StartEl(ROOT_TAG, <<>>)>> \o write_groups(BaseCipher, <<GroupA, GroupB>>, "forward").ev
                \o <<EndEl(ROOT_TAG)>>
RootDocuments == {Document(RootElement(kind)) : kind \in RootKinds}

\* Documents whose Group, or whose Entry, has no UUID element.
GroupAEvents == write_group_section(BaseCipher, GroupA, "forward").ev
InRoot(events) == <<StartEl(ROOT_TAG, <<>>)>> \o events \o <<EndEl(ROOT_TAG)>>
WithoutUuidOf(x, tag) == ReplaceAt(x, IndexOfStart(x, tag, 1) + 1, <<>>)
NoUuidKinds == {GROUP_TAG, ENTRY_TAG}
NoUuidDocument(tag) == Document(InRoot(WithoutUuidOf(GroupAEvents, tag)))
UuidDocuments == {NoUuidDocument(tag) : tag \in NoUuidKinds}

\* Documents in which the text of one field of the Group cannot be
\* converted, and a document whose String element has no Key.
BadFields ==
    {[tag |-> ICON_ID_TAG, text |-> Str("x"), field |-> "icon"],
     [tag |-> ICON_ID_TAG, text |-> Str("99"), field |-> "icon"],
     [tag |-> ICON_ID_TAG, text |-> Str(""), field |-> "icon"],
     [tag |-> IS_EXPANDED_TAG, text |-> Str("x"), field |-> "is_expanded"],
     [tag |-> CREATION_TIME_TAG, text |-> Str("x"), field |-> "creation_time"],
     [tag |-> USAGE_COUNT_TAG, text |-> Str("x"), field |-> "usage_count"],
     [tag |-> UUID_TAG, text |-> Str("x"), field |-> "uuid"],
     [tag |-> UUID_TAG, text |-> Base64Encode(Fill(15, 2)), field |-> "uuid"]}
BadFieldRoot(bad) ==
    InRoot(ReplaceAt(GroupAEvents, IndexOfStart(GroupAEvents, bad.tag, 1),
                     write_string_tag(bad.tag, bad.text)))
NoKeyRoot == InRoot(ReplaceAt(GroupAEvents, IndexOfStart(GroupAEvents, KEY_TAG, 1), <<>>))
FieldDocuments == {Document(BadFieldRoot(bad)) : bad \in BadFields} \cup {Document(NoKeyRoot)}

Documents == RootDocuments \cup UuidDocuments \cup FieldDocuments

\* Databases whose root entry, or an older version of it, holds a binary
\* by reference, with and without the binary in the table of the database.
RefEntry(id) ==
    [Entry1 EXCEPT !.binaries = MapInsert(EmptyMap, Str("a"), <<"Ref", id>>)]
RefEntries ==
    {RefEntry(id) : id \in {"0", "7"}}
        \cup {[Entry1 EXCEPT !.history = <<RefEntry(id)>>] : id \in {"0", "7"}}
BinaryTables == {EmptyMap, MapInsert(EmptyMap, "0", Bytes(<<4, 2>>))}
RefDatabases ==
    {[BaseDb EXCEPT !.binaries = table, !.root_group.entries = <<entry>>] :
        table \in BinaryTables, entry \in RefEntries}

\* A document about to be opened, or a database about to be saved and then
\* opened.
InitDocuments ==
    /\ \/ pc = "save" /\ db \in {BaseDb} \cup RefDatabases /\ input = <<>>
       \/ pc = "open" /\ db = BaseDb /\ input \in {DocumentFile(x) : x \in Documents}
    /\ Unread
SpecDocuments == InitDocuments /\ [][Next]_vars

\* The databases with protected values: a root entry of any shape with a
\* history of up to MaxHistory older versions of any shape, and possibly a
\* subgroup with an entry of its own and one older version of it.
EntryShapes == {"none", "password", "binary", "all"}
ShapedEntry(n, shape) ==
    [uuid |-> Uuid(n),
     strings |->
        CASE shape = "none" -> MapInsert(EmptyMap, <<"Title", "">>, <<"Plain", Str("t1")>>)
          [] shape = "password" ->
                MapInsert(MapInsert(EmptyMap, <<"Title", "">>, <<"Plain", Str("t1")>>),
                          <<"Password", "">>, <<"Protected", Str("pw")>>)
          [] shape = "binary" ->
                MapInsert(EmptyMap, <<"Title", "">>, <<"Protected", Str("t1")>>)
          [] shape = "all" ->
                MapInsert(MapInsert(EmptyMap, <<"Password", "">>, <<"Protected", Str("pw")>>),
                          <<"Other", "k">>, <<"Protected", Str("sec")>>),
     binaries |->
        CASE shape \in {"none", "password"} -> EmptyMap
          [] shape = "binary" ->
                MapInsert(MapInsert(EmptyMap, Str("a"), <<"Protected", Bytes(<<n, 1>>)>>),
                          Str("b"), <<"Plain", Bytes(<<5>>)>>)
          [] shape = "all" ->
                MapInsert(MapInsert(EmptyMap, Str("a"), <<"Protected", Bytes(<<n, 1>>)>>),
                          Str("b"), <<"Protected", Bytes(<<n, 2, 3>>)>>),
     history |-> <<>>]
Histories(n) ==
    UNION {[1..m -> {ShapedEntry(n, shape) : shape \in EntryShapes}] : m \in 0..MaxHistory}
ProtectedRoots ==
    {[BaseDb.root_group EXCEPT
        !.entries = << [ShapedEntry(3, a) EXCEPT !.history = h] >>, !.groups = gs] :
     a \in EntryShapes, h \in Histories(3),
     gs \in {<<>>} \cup
            {<< [SubGroup EXCEPT !.entries =
                    << [ShapedEntry(4, b) EXCEPT
                          !.history = <<ShapedEntry(4, "password")>>] >>] >> :
             b \in EntryShapes}}
ProtectedDatabases == {[BaseDb EXCEPT !.root_group = r] : r \in ProtectedRoots}

\* A database with protected values is saved and then opened.
InitProtected == pc = "save" /\ db \in ProtectedDatabases /\ input = <<>> /\ Unread
SpecProtected == InitProtected /\ [][Next]_vars

(***************************************************************************)
(* Key files: kf.rs, kf_reader.rs, kf_writer.rs, key_file.rs               *)
(***************************************************************************)
BINARY_KEY_FILE_LEN == 32
HEX_KEY_FILE_LEN == 64
XML_KEY_FILE_VERSION == "1.00"
KEY_FILE_TAG == "KeyFile"
KF_META_TAG == "Meta"
VERSION_TAG == "Version"
KF_KEY_TAG == "Key"
DATA_TAG == "Data"

KeyFile(k, file_type) == [key |-> k, file_type |-> file_type]

\* hex::ToHex: two lower case digits for every byte.
HexChar(n) == B(IF n < 10 THEN 48 + n ELSE 87 + n)
RECURSIVE to_hex(_)
to_hex(bytes) ==
    IF bytes = <<>> THEN <<>>
    ELSE <<HexChar(bytes[1][2] \div 16), HexChar(bytes[1][2] % 16)>> \o to_hex(Tail(bytes))

\* hex::FromHex: the value of a digit in either case, -1 for any other byte.
HexValue(c) ==
    IF c[1] # "b" THEN -1
    ELSE IF c[2] \in 48..57 THEN c[2] - 48
    ELSE IF c[2] \in 97..102 THEN c[2] - 87
    ELSE IF c[2] \in 65..70 THEN c[2] - 55
    ELSE -1
from_hex(data) ==
    IF Len(data) % 2 # 0 \/ \E i \in 1..Len(data) : HexValue(data[i]) = -1
    THEN Err("FromHexError", <<>>)
    ELSE Ok([i \in 1..(Len(data) \div 2) |->
                B(16 * HexValue(data[2 * i - 1]) + HexValue(data[2 * i]))])

\* kf_writer.rs
write_binary(k) == k.key
write_hex(k) == to_hex(k.key)
write_xml_meta_section ==
    <<StartEl(KF_META_TAG, <<>>)>> \o write_string_tag(VERSION_TAG, Str(XML_KEY_FILE_VERSION))
        \o <<EndEl(KF_META_TAG)>>
write_xml_key_section(k) ==
    <<StartEl(KF_KEY_TAG, <<>>)>> \o write_binary_tag(DATA_TAG, k.key) \o <<EndEl(KF_KEY_TAG)>>
write_xml_key_file_section(k) ==
    <<StartEl(KEY_FILE_TAG, <<>>)>> \o write_xml_meta_section \o write_xml_key_section(k)
        \o <<EndEl(KEY_FILE_TAG)>>
write_xml(k) == write_xml_key_file_section(k)
\* Variant: every key file is written as a binary key file.
kf_write_binary(k) == write_binary(k)
kf_write(k) ==
    CASE k.file_type = "Binary" -> write_binary(k)
      [] k.file_type = "Hex" -> write_hex(k)
      [] k.file_type = "Xml" -> write_xml(k)

\* The length in bytes of the data of a key file.  A byte counts one; an
\* element of a document counts the bytes of its text, and a document
\* starts with the 38 bytes of the XML declaration the writer emits.
TextLen(text) ==
    CASE text[1] = "b64" -> 4 * ((Len(text[2]) + 2) \div 3)
      [] text[1] = "str" /\ text[2] = XML_KEY_FILE_VERSION -> 4
      [] OTHER -> 1
NameLen(name) ==
    CASE name \in {KEY_FILE_TAG, VERSION_TAG} -> 7
      [] name \in {KF_META_TAG, DATA_TAG} -> 4
      [] OTHER -> 3
CellLen(c) ==
    IF c[1] # "xml" THEN 1
    ELSE CASE c[2][1] = "start" -> NameLen(c[2][2]) + 2
           [] c[2][1] = "end" -> NameLen(c[2][2]) + 3
           [] OTHER -> TextLen(c[2][3])
RECURSIVE CellsLen(_)
CellsLen(data) == IF data = <<>> THEN 0 ELSE CellLen(data[1]) + CellsLen(Tail(data))
DataLen(data) ==
    IF \E i \in 1..Len(data) : data[i][1] = "xml" THEN 38 + CellsLen(data) ELSE Len(data)

\* kf_reader.rs
\* Variant: a hex key file is not decoded.
read_hex_raw(data) == Ok(KeyFile(data, "Hex"))
kf_read_binary(data) == Ok(KeyFile(data, "Binary"))
read_hex(data) ==
    IF Kind(from_hex(data)) = "Ok" THEN Ok(KeyFile(Args(from_hex(data)), "Hex"))
    ELSE Err("InvalidKeyFile", <<>>)

RECURSIVE read_xml_meta(_, _)
read_xml_meta(x, i) ==
    LET e == NextEvent(x, i)
    IN  IF NextFails(e) THEN [res |-> XmlSyntaxError, i |-> i]
        ELSE CASE e[1] = "start" /\ e[2] = VERSION_TAG ->
               Try(xml_read_string(x, i + 1),
                 LAMBDA r : IF Args(r.res) # Str(XML_KEY_FILE_VERSION)
                            THEN [res |-> Err("XmlError", <<"Unsupported key file version">>),
                                  i |-> r.i]
                            ELSE read_xml_meta(x, r.i))
          [] e[1] = "end" /\ e[2] = KF_META_TAG -> [res |-> Ok(<<>>), i |-> i + 1]
          [] OTHER -> read_xml_meta(x, i + 1)

RECURSIVE read_xml_key(_, _, _)
read_xml_key(x, i, opt_key) ==
    LET e == NextEvent(x, i)
    IN  IF NextFails(e) THEN [res |-> XmlSyntaxError, i |-> i]
        ELSE CASE e[1] = "start" /\ e[2] = DATA_TAG ->
               Try(xml_read_binary(x, i + 1),
                 LAMBDA r : read_xml_key(x, r.i, Some(Args(r.res))))
          [] e[1] = "end" /\ e[2] = KF_KEY_TAG ->
               [res |-> IF IsSome(opt_key) THEN Ok(Unwrap(opt_key))
                      ELSE Err("XmlError", <<"No Data tag found">>),
              i |-> i + 1]
          [] OTHER -> read_xml_key(x, i + 1, opt_key)

RECURSIVE read_xml_key_file(_, _, _)
read_xml_key_file(x, i, opt_key) ==
    LET e == NextEvent(x, i)
    IN  IF NextFails(e) THEN [res |-> XmlSyntaxError, i |-> i]
        ELSE CASE e[1] = "start" /\ e[2] = KF_KEY_TAG ->
               Try(read_xml_key(x, i + 1, NoneV),
                 LAMBDA r : read_xml_key_file(x, r.i, Some(Args(r.res))))
          [] e[1] = "start" /\ e[2] = KF_META_TAG ->
               Try(read_xml_meta(x, i + 1), LAMBDA r : read_xml_key_file(x, r.i, opt_key))
          [] e[1] = "end" /\ e[2] = KEY_FILE_TAG ->
               [res |-> IF IsSome(opt_key) THEN Ok(Unwrap(opt_key))
                      ELSE Err("XmlError", <<"No Key tag found">>),
              i |-> i + 1]
          [] OTHER -> read_xml_key_file(x, i + 1, opt_key)

\* read_xml: the events up to the end of the document; data that is empty
\* or holds anything but a document is an error of the XML reader.
RECURSIVE read_xml_loop(_, _, _)
KeyFileOf(r) == r.res
read_xml_loop(x, i, opt_key) ==
    LET e == NextEvent(x, i)
    IN  IF e[1] = "bad" \/ x = <<>> THEN XmlSyntaxError
        ELSE IF e[1] = "eof"
        THEN IF IsSome(opt_key) THEN Ok(KeyFile(Unwrap(opt_key), "Xml"))
             ELSE Err("XmlError", <<"No KeyFile tag found">>)
        ELSE IF e[1] = "start" /\ e[2] = KEY_FILE_TAG
        THEN KeyFileOf(Try(read_xml_key_file(x, i + 1, NoneV),
                           LAMBDA r : [res |-> read_xml_loop(x, r.i, Some(Args(r.res))),
                                       i |-> r.i]))
        ELSE read_xml_loop(x, i + 1, opt_key)
read_xml(data) == read_xml_loop(data, 1, NoneV)

\* kf_reader::read: the length of the data chooses the reader.
kf_read(data) ==
    CASE DataLen(data) = BINARY_KEY_FILE_LEN -> kf_read_binary(data)
      [] DataLen(data) = HEX_KEY_FILE_LEN -> read_hex(data)
      [] OTHER -> read_xml(data)

\* KeyFile::get_random_key: 32 random bytes.
ByteSamples == {0, 10, 171, 255}
RandomKeys == {[i \in 1..32 |-> B(IF i % 2 = 1 THEN a ELSE b)] : a, b \in ByteSamples}
\* KeyFile::new_binary, new_hex and new_xml.
NewKeyFiles == {KeyFile(k, t) : k \in RandomKeys, t \in {"Binary", "Hex", "Xml"}}

\* The data handed to KeyFile::open: 32 bytes of any kind, 64 bytes that
\* are hex digits in lower case, in upper case, in both, or all but one,
\* data of other lengths, and documents.
Upper(c) == IF c[2] \in 97..102 THEN B(c[2] - 32) ELSE c
HexInputs ==
    {to_hex(k) : k \in RandomKeys}
        \cup {[i \in 1..64 |-> Upper(to_hex(k)[i])] : k \in RandomKeys}
        \cup {[i \in 1..64 |-> IF i % 3 = 0 THEN Upper(to_hex(k)[i]) ELSE to_hex(k)[i]] :
                k \in RandomKeys}
        \cup {[to_hex(k) EXCEPT ![n] = B(c)] :
                k \in RandomKeys, n \in {1, 64}, c \in {47, 58, 71, 103, 32}}
OtherLengths == {0, 1, 31, 33, 63, 65}
XmlKeyDocuments ==
    {write_xml(KeyFile(k, "Xml")) : k \in {Fill(32, 1), Fill(16, 2), <<>>}}
        \cup {<<StartEl(KEY_FILE_TAG, <<>>), EndEl(KEY_FILE_TAG)>>,
              <<StartEl(KF_KEY_TAG, <<>>), EndEl(KF_KEY_TAG)>>,
              <<StartEl(KEY_FILE_TAG, <<>>), StartEl(KF_KEY_TAG, <<>>), EndEl(KF_KEY_TAG),
                EndEl(KEY_FILE_TAG)>>,
              <<StartEl(KEY_FILE_TAG, <<>>), StartEl(KF_META_TAG, <<>>)>>
                  \o write_string_tag(VERSION_TAG, Str("2.0")) \o <<EndEl(KF_META_TAG)>>
                  \o write_xml_key_section(KeyFile(Fill(32, 1), "Xml"))
                  \o <<EndEl(KEY_FILE_TAG)>>}
KeyFileInputs ==
    RandomKeys \cup HexInputs \cup {Fill(n, 65) : n \in OtherLengths} \cup XmlKeyDocuments

\* KeyFile::save, then the data is handed to KeyFile::open.
KfSave ==
    /\ pc = "kf_save"
    /\ input' = kf_write(key_file)
    /\ pc' = "kf_open"
    /\ UNCHANGED <<db, key, pos, is_logging, log_data, version, headers, header_hash,
                   payload, cur, block_id, xml, xml_data, result,
                   key_file, receiver, curr, todo, yielded>>
    /\ UNCHANGED extras

\* KeyFile::open
KfOpen ==
    /\ pc = "kf_open"
    /\ result' = kf_read(input)
    /\ pc' = "kf_done"
    /\ UNCHANGED <<db, input, key, pos, is_logging, log_data, version, headers,
                   header_hash, payload, cur, block_id, xml, xml_data,
                   key_file, receiver, curr, todo, yielded>>
    /\ UNCHANGED extras

InitKeyFile ==
    /\ \/ pc = "kf_save" /\ key_file \in NewKeyFiles /\ input = <<>>
       \/ pc = "kf_open" /\ key_file = NoKeyFile /\ input \in KeyFileInputs
    /\ db = BaseDb /\ key = "key1" /\ pos = 0 /\ is_logging = FALSE /\ log_data = <<>>
    /\ version = [major |-> 0, minor |-> 0] /\ headers = EmptyHeaders
    /\ header_hash = <<>> /\ payload = <<>> /\ cur = 0 /\ block_id = 0 /\ xml = <<>>
    /\ xml_data = XmlDataDefault /\ result = Running
    /\ receiver = NoneV /\ curr = NoneV /\ todo = <<>> /\ yielded = <<>>
    /\ Idle
NextKeyFile == KfSave \/ KfOpen
SpecKeyFile == InitKeyFile /\ [][NextKeyFile]_vars

(***************************************************************************)
(* Group iterators (types/group.rs).  A reference to a group of the tree   *)
(* is the path of child indexes that leads to it from the receiver.        *)
(***************************************************************************)
MaxChildren == 2
MaxNones == 2

\* The group a reference points to.
RECURSIVE GroupAt(_, _)
GroupAt(g, path) ==
    IF path = <<>> THEN g ELSE GroupAt(g.groups[Head(path)], Tail(path))

\* group.groups.iter(): the references to the child groups, in list order.
SubsOf(g, path) == [n \in 1..Len(GroupAt(g, path).groups) |-> Append(path, n)]

\* VecDeque::push_back of every reference / VecDeque::pop_front.
push_front_all(queue, refs) == refs \o queue
push_back_all(queue, refs) == queue \o refs
pop_back(queue) ==
    IF queue = <<>> THEN [item |-> NoneV, queue |-> <<>>]
    ELSE [item |-> Some(queue[Len(queue)]), queue |-> SubSeq(queue, 1, Len(queue) - 1)]
pop_front(queue) ==
    IF queue = <<>> THEN [item |-> NoneV, queue |-> <<>>]
    ELSE [item |-> Some(Head(queue)), queue |-> Tail(queue)]

\* The queue after `match self.curr.take()`.
TodoAfterTake(g, c, queue) ==
    IF IsSome(c) THEN push_back_all(queue, SubsOf(g, c[2])) ELSE queue

\* Group::new(name) and add_group: the trees of the tests, the root with up
\* to MaxChildren child groups, each with up to MaxChildren child groups.
TreeShapes ==
    UNION {[1..n -> 0..MaxChildren] : n \in 0..MaxChildren}
RECURSIVE SubName(_)
SubName(path) ==
    IF path = <<>> THEN "sub"
    ELSE SubName(SubSeq(path, 1, Len(path) - 1)) \o "_" \o ToString(path[Len(path)])
LeafOf(path) == GroupNew(Str(SubName(path)), Uuid(100 + Len(path)))
TreeOf(shape) ==
    [GroupNew(Str("root"), Uuid(100)) EXCEPT !.groups =
        [n \in 1..Len(shape) |->
            [LeafOf(<<n>>) EXCEPT !.groups =
                [m \in 1..shape[n] |-> LeafOf(<<n, m>>)]]]]
TestTree == TreeOf(<<2, 2>>)

\* group.name = num.to_string() on the group a reference points to.
RECURSIVE WithName(_, _, _)
WithName(g, path, name) ==
    IF path = <<>> THEN [g EXCEPT !.name = name]
    ELSE [g EXCEPT !.groups[Head(path)] = WithName(@, Tail(path), name)]

Nones(seq) == Cardinality({n \in 1..Len(seq) : seq[n] = NoneV})

\* Group::iter
Iter ==
    /\ pc = "group"
    /\ curr' = NoneV
    /\ todo' = <<<<>>>>
    /\ pc' = "iter"
    /\ UNCHANGED <<db, input, key, pos, is_logging, log_data, version, headers,
                   header_hash, payload, cur, block_id, xml, xml_data, result,
                   key_file, receiver, yielded>>
    /\ UNCHANGED extras

\* Group::iter_mut
IterMut ==
    /\ pc = "group"
    /\ curr' = NoneV
    /\ todo' = <<<<>>>>
    /\ pc' = "iter_mut"
    /\ UNCHANGED <<db, input, key, pos, is_logging, log_data, version, headers,
                   header_hash, payload, cur, block_id, xml, xml_data, result,
                   key_file, receiver, yielded>>
    /\ UNCHANGED extras

\* Iter::next
IterNext ==
    /\ pc = "iter"
    /\ Nones(yielded) < MaxNones
    /\ curr' = pop_front(TodoAfterTake(receiver, curr, todo)).item
    /\ todo' = pop_front(TodoAfterTake(receiver, curr, todo)).queue
    /\ yielded' = Append(yielded, curr')
    /\ UNCHANGED <<db, input, key, pos, is_logging, log_data, version, headers,
                   header_hash, payload, cur, block_id, xml, xml_data, result,
                   key_file, receiver, pc>>
    /\ UNCHANGED extras

\* IterMut::next; self.curr keeps a copy of the reference it returns.
IterMutNext ==
    /\ pc = "iter_mut"
    /\ Nones(yielded) < MaxNones
    /\ curr' = pop_front(TodoAfterTake(receiver, curr, todo)).item
    /\ todo' = pop_front(TodoAfterTake(receiver, curr, todo)).queue
    /\ yielded' = Append(yielded, curr')
    /\ UNCHANGED <<db, input, key, pos, is_logging, log_data, version, headers,
                   header_hash, payload, cur, block_id, xml, xml_data, result,
                   key_file, receiver, pc>>
    /\ UNCHANGED extras

\* The body of `for group in root.iter_mut()`: the group just returned is
\* renamed to the number of groups returned before it.
Rename ==
    /\ pc = "iter_mut"
    /\ yielded # <<>>
    /\ IsSome(yielded[Len(yielded)])
    /\ GroupAt(receiver, yielded[Len(yielded)][2]).name # Str(ToString(Len(yielded) - 1))
    /\ receiver' = WithName(receiver, yielded[Len(yielded)][2], Str(ToString(Len(yielded) - 1)))
    /\ UNCHANGED <<db, input, key, pos, is_logging, log_data, version, headers,
                   header_hash, payload, cur, block_id, xml, xml_data, result,
                   key_file, curr, todo, yielded, pc>>
    /\ UNCHANGED extras

InitIter ==
    /\ pc = "group" /\ receiver \in {TreeOf(shape) : shape \in TreeShapes}
    /\ curr = NoneV /\ todo = <<>> /\ yielded = <<>>
    /\ db = BaseDb /\ input = <<>> /\ key = "key1" /\ pos = 0 /\ is_logging = FALSE
    /\ log_data = <<>> /\ version = [major |-> 0, minor |-> 0] /\ headers = EmptyHeaders
    /\ header_hash = <<>> /\ payload = <<>> /\ cur = 0 /\ block_id = 0 /\ xml = <<>>
    /\ xml_data = XmlDataDefault /\ result = Running /\ key_file = NoKeyFile
    /\ Idle
NextIter == Iter \/ IterMut \/ IterNext \/ IterMutNext \/ Rename
SpecIter == InitIter /\ [][NextIter]_vars

(***************************************************************************)
(* Formatting with {:?}: the derived Debug of the types that hold secrets. *)
(* The text is kept as a tree of the pieces the formatter writes.          *)
(***************************************************************************)
\* secstr: Debug of a SecStr writes this text whatever the content.
DebugSecStr(s) == "***SECRET***"

\* #[derive(Debug)] of StringValue
DebugStringValueShown(v) == <<v[1], v[2]>>
DebugStringValue(v) ==
    IF v[1] = "Protected" THEN <<"Protected", DebugSecStr(v[2])>> ELSE <<"Plain", v[2]>>

\* #[derive(Debug)] of BinaryValue
DebugBinaryValue(v) ==
    IF v[1] = "Protected" THEN <<"Protected", DebugSecStr(v[2])>> ELSE <<v[1], v[2]>>

\* Debug of a HashMap: the pairs in the order the map hands them out.
PresentKeys(m, keys) == SelectSeq(keys, LAMBDA k : k \in DOMAIN m)
DebugStrings(m, hash_order) ==
    [n \in 1..Len(PresentKeys(m, Iteration(KeyOrder, hash_order))) |->
        <<PresentKeys(m, Iteration(KeyOrder, hash_order))[n],
          DebugStringValue(m[PresentKeys(m, Iteration(KeyOrder, hash_order))[n]])>>]
DebugBinaries(m, hash_order) ==
    [n \in 1..Len(PresentKeys(m, Iteration(BinaryOrder, hash_order))) |->
        <<PresentKeys(m, Iteration(BinaryOrder, hash_order))[n],
          DebugBinaryValue(m[PresentKeys(m, Iteration(BinaryOrder, hash_order))[n]])>>]

\* #[derive(Debug)] of Entry
RECURSIVE DebugEntry(_, _)
DebugEntry(e, hash_order) ==
    [uuid |-> e.uuid,
     strings |-> DebugStrings(e.strings, hash_order),
     binaries |-> DebugBinaries(e.binaries, hash_order),
     history |-> [n \in 1..Len(e.history) |-> DebugEntry(e.history[n], hash_order)]]

\* #[derive(Debug)] of Group
RECURSIVE DebugGroup(_, _)
DebugGroup(g, hash_order) ==
    [g EXCEPT !.entries = [n \in 1..Len(g.entries) |-> DebugEntry(g.entries[n], hash_order)],
              !.groups = [n \in 1..Len(g.groups) |-> DebugGroup(g.groups[n], hash_order)]]

\* #[derive(Debug)] of CompositeKey, KeyFile and Database
DebugCompositeKey(k) == <<"CompositeKey", DebugSecStr(k)>>
DebugKeyFile(k) == [key |-> DebugSecStr(k.key), file_type |-> k.file_type]
DebugDatabase(d, hash_order) ==
    [d EXCEPT !.composite_key = DebugCompositeKey(d.composite_key),
              !.root_group = DebugGroup(d.root_group, hash_order)]

\* format!("{:?}", value)
Debug(s) ==
    CASE s.kind = "StringValue" -> DebugStringValue(s.value)
      [] s.kind = "BinaryValue" -> DebugBinaryValue(s.value)
      [] s.kind = "Entry" -> DebugEntry(s.value, s.hash_order)
      [] s.kind = "Group" -> DebugGroup(s.value, s.hash_order)
      [] s.kind = "CompositeKey" -> DebugCompositeKey(s.value)
      [] s.kind = "KeyFile" -> DebugKeyFile(s.value)
      [] s.kind = "Database" -> DebugDatabase(s.value, s.hash_order)

\* The values formatted: what client code holds after building or opening
\* a database, with the state of the maps' hasher.
Subject(kind, value, hash_order) ==
    [kind |-> kind, value |-> value, hash_order |-> hash_order]
FormattedEntries ==
    {[ShapedEntry(3, a) EXCEPT !.history = h] : a \in EntryShapes, h \in Histories(3)}
StringSubjects ==
    {Subject("StringValue", StringValue(Str(t), p), "forward") :
        t \in {"", "pw"}, p \in BOOLEAN}
BinarySubjects ==
    {Subject("BinaryValue", v, "forward") :
        v \in {<<"Plain", Bytes(<<5>>)>>, <<"Protected", Bytes(<<3, 1>>)>>,
               <<"Protected", <<>>>>}}
RefSubjects == {Subject("BinaryValue", <<"Ref", "0">>, "forward")}
EntrySubjects ==
    {Subject("Entry", e, o) : e \in FormattedEntries, o \in {"forward", "reverse"}}
GroupSubjects ==
    {Subject("Group", r, o) : r \in ProtectedRoots, o \in {"forward", "reverse"}}
KeySubjects == {Subject("CompositeKey", k, "forward") : k \in Keys}
KeyFileSubjects == {Subject("KeyFile", k, "forward") : k \in NewKeyFiles}
DatabaseSubjects ==
    {Subject("Database", d, o) : d \in ProtectedDatabases, o \in {"forward", "reverse"}}

\* format!("{:?}", subject)
Format ==
    /\ pc = "fmt"
    /\ out' = Debug(subject)
    /\ pc' = "fmt_done"
    /\ UNCHANGED <<db, input, key, pos, is_logging, log_data, version, headers,
                   header_hash, payload, cur, block_id, xml, xml_data, result,
                   key_file, receiver, curr, todo, yielded, subject, sink, transferred, cut>>

InitFormat ==
    /\ pc = "fmt" /\ out = <<>> /\ sink = <<>> /\ transferred = <<>> /\ cut = 0
    /\ \/ subject \in StringSubjects
       \/ subject \in BinarySubjects
       \/ subject \in RefSubjects
       \/ subject \in EntrySubjects
       \/ subject \in GroupSubjects
       \/ subject \in KeySubjects
       \/ subject \in KeyFileSubjects
       \/ subject \in DatabaseSubjects
    /\ db = BaseDb /\ input = <<>> /\ key = "key1" /\ pos = 0 /\ is_logging = FALSE
    /\ log_data = <<>> /\ version = [major |-> 0, minor |-> 0] /\ headers = EmptyHeaders
    /\ header_hash = <<>> /\ payload = <<>> /\ cur = 0 /\ block_id = 0 /\ xml = <<>>
    /\ xml_data = XmlDataDefault /\ result = Running /\ key_file = NoKeyFile
    /\ receiver = NoneV /\ curr = NoneV /\ todo = <<>> /\ yielded = <<>>
NextFormat == Format
SpecFormat == InitFormat /\ [][NextFormat]_vars

(***************************************************************************)
(* Saving a database and opening the saved bytes through a reader made of  *)
(* two parts: the same file, read through a reader that stops one read at  *)
(* the seam.                                                                *)
(***************************************************************************)
MaxSeam == 40
\* The base database, with and without a comment.
SeamDatabases == {d \in Databases : \A f \in (DOMAIN d) \ {"comment"} : d[f] = BaseDb[f]}
InitSeam ==
    /\ pc = "save" /\ db \in SeamDatabases /\ input = <<>>
    /\ Fresh
    /\ subject = NoneV /\ out = <<>> /\ sink = <<>> /\ transferred = <<>>
    /\ cut \in 0..MaxSeam
SpecSeam == InitSeam /\ [][Next]_vars

(***************************************************************************)
(* LogReader and LogWriter on their own: a caller reads from a LogReader    *)
(* over `input`, or writes to a LogWriter over `sink`, and starts, stops    *)
(* and clears the log.  The inner reader and writer may transfer fewer      *)
(* bytes than the buffer holds, as std::io::Read and Write allow.           *)
(* `transferred` records the bytes the inner reader or writer transferred   *)
(* while logging was on, since the last clear.                              *)
(***************************************************************************)
MaxInput == 4
MaxBuf == 3
MaxLogged == 6
LogInput == [i \in 1..MaxInput |-> B(i)]

\* What a transfer adds to the bytes transferred while logging was on.
Transfer(logging, moved, bytes) == IF logging THEN moved \o bytes ELSE moved

\* LogWriter::write: the whole buffer is appended to the log while logging,
\* whatever count the inner writer returned.
LogWrite(logging, log, buf, n) == IF logging THEN log \o buf ELSE log

\* LogReader::read(&mut buf) with a zeroed buffer of len bytes; the inner
\* reader reads n of them.
LogReaderRead ==
    /\ pc = "reader"
    /\ \E len \in 1..MaxBuf :
       \E n \in {k \in 0..Min(len, Avail(input, pos)) : k > 0 \/ Avail(input, pos) = 0} :
          LET r == ReadSome(input, pos, Zeros(len), pos + n) IN
          /\ Len(log_data) + len <= MaxLogged
          /\ log_data' = LogRead(is_logging, log_data, r.buf)
          /\ transferred' = Transfer(is_logging, transferred, SubSeq(r.buf, 1, r.n))
          /\ pos' = pos + r.n
    /\ UNCHANGED <<db, input, key, is_logging, pc, version, headers, header_hash,
                   payload, cur, block_id, xml, xml_data, result>>
    /\ UNCHANGED <<key_file, receiver, curr, todo, yielded, subject, out, sink, cut>>

\* LogWriter::write(buf), where the caller writes `input` and goes on after
\* the bytes that were accepted; the inner writer accepts n bytes of buf.
LogWriterWrite ==
    /\ pc = "writer"
    /\ \E len \in 1..Min(MaxBuf, Avail(input, Len(sink))) : \E n \in 1..len :
          LET buf == SubSeq(input, Len(sink) + 1, Len(sink) + len) IN
          /\ Len(log_data) + Len(buf) <= MaxLogged
          /\ sink' = sink \o SubSeq(buf, 1, n)
          /\ log_data' = LogWrite(is_logging, log_data, buf, n)
          /\ transferred' = Transfer(is_logging, transferred, SubSeq(buf, 1, n))
    /\ UNCHANGED <<db, input, key, pos, is_logging, pc, version, headers, header_hash,
                   payload, cur, block_id, xml, xml_data, result>>
    /\ UNCHANGED <<key_file, receiver, curr, todo, yielded, subject, out, cut>>

LogFrame ==
    /\ UNCHANGED <<db, input, key, pos, pc, version, headers, header_hash,
                   payload, cur, block_id, xml, xml_data, result>>
    /\ UNCHANGED <<key_file, receiver, curr, todo, yielded, subject, out, sink, cut>>

\* Log::start
LogStart ==
    /\ pc \in {"reader", "writer"}
    /\ is_logging' = TRUE
    /\ UNCHANGED <<log_data, transferred>>
    /\ LogFrame

\* Log::stop
LogStop ==
    /\ pc \in {"reader", "writer"}
    /\ is_logging' = FALSE
    /\ UNCHANGED <<log_data, transferred>>
    /\ LogFrame

\* Log::clear
LogClear ==
    /\ pc \in {"reader", "writer"}
    /\ log_data' = <<>>
    /\ transferred' = <<>>
    /\ UNCHANGED is_logging
    /\ LogFrame

\* LogReader::new(Cursor::new(input)), or LogWriter::new(Vec::new()) and
\* `input` to be written
InitLog ==
    /\ pc \in {"reader", "writer"}
    /\ input = LogInput
    /\ db = BaseDb
    /\ Fresh /\ key = "key1"
    /\ Idle

NextLog == LogReaderRead \/ LogWriterWrite \/ LogStart \/ LogStop \/ LogClear
SpecLog == InitLog /\ [][NextLog]_vars

(***************************************************************************)
(* Documents that put the readers of the XML to the test: every prefix of  *)
(* a document with protected, empty, plain and referenced values, entries   *)
(* with a History inside a History, and elements the format does not know. *)
(***************************************************************************)
ValueDb ==
    [BaseDb EXCEPT !.root_group.entries =
        << [ShapedEntry(3, "all") EXCEPT !.history = <<ShapedEntry(3, "binary")>>] >>]
ValueXml == xml_write(ValueDb, Sha256(HeaderBytes(DB_SIGNATURE, KDB2_SIGNATURE, BaseRecords)),
                      StreamKey(BaseRandom.protected_stream_key), BaseRandom.hash_order)
KeyEl(text) == <<StartEl(KEY_TAG, <<>>), Chars(text), EndEl(KEY_TAG)>>
StringEl(name, attrs, content) ==
    <<StartEl(STRING_TAG, <<>>)>> \o KeyEl(Str(name)) \o <<StartEl(VALUE_TAG, attrs)>>
        \o content \o <<EndEl(VALUE_TAG), EndEl(STRING_TAG)>>
BinaryEl(name, attrs, content) ==
    <<StartEl(BINARY_TAG, <<>>)>> \o KeyEl(Str(name)) \o <<StartEl(VALUE_TAG, attrs)>>
        \o content \o <<EndEl(VALUE_TAG), EndEl(BINARY_TAG)>>
\* An empty protected string, a string protected in memory only, a binary
\* held by reference and marked protected, and a Value element that belongs
\* to no String or Binary.
OtherValues ==
    StringEl("URL", <<<<"Protected", "True">>>>, <<>>)
        \o StringEl("Notes", <<<<"ProtectInMemory", "True">>>>, <<Chars(Str("t1"))>>)
        \o BinaryEl("r", <<<<"Ref", "0">>, <<"Protected", "True">>>>, <<>>)
        \o <<StartEl(VALUE_TAG, <<<<"Protected", "True">>>>),
             Chars(Base64Encode(Bytes(<<8, 8>>))), EndEl(VALUE_TAG)>>
InsertAt(x, i, el) == SubSeq(x, 1, i - 1) \o el \o SubSeq(x, i, Len(x))
ValueDocument == InsertAt(ValueXml, IndexOfStart(ValueXml, BINARY_TAG, 1), OtherValues)
ValueDocuments == {SubSeq(ValueDocument, 1, n) : n \in 1..Len(ValueDocument)}


\* An entry with one older version; the older version holds nothing more,
\* an empty History element, or a History element with an entry in it.
\* Strings follow the inner History in the older version and the History in
\* the entry.
PlainString(name, text) == StringEl(name, <<>>, <<Chars(Str(text))>>)
ElementOf(tag, content) == <<StartEl(tag, <<>>)>> \o content \o <<EndEl(tag)>>
NestedKinds == {"none", "empty", "entry"}
NestedHistory(kind) ==
    CASE kind = "none" -> <<>>
      [] kind = "empty" -> ElementOf(HISTORY_TAG, <<>>)
      [] kind = "entry" ->
            ElementOf(HISTORY_TAG,
                ElementOf(ENTRY_TAG, write_uuid_tag(UUID_TAG, Uuid(9))
                                        \o PlainString("Title", "sec")))
OlderVersion(kind) ==
    ElementOf(ENTRY_TAG, write_uuid_tag(UUID_TAG, Uuid(3)) \o PlainString("Title", "pw")
                            \o NestedHistory(kind) \o PlainString("k", "t1"))
HistoryEntry(kind) ==
    ElementOf(ENTRY_TAG, write_uuid_tag(UUID_TAG, Uuid(3)) \o PlainString("Title", "t1")
                            \o ElementOf(HISTORY_TAG, OlderVersion(kind))
                            \o PlainString("Password", "pw"))
GroupOf(content) == ElementOf(GROUP_TAG, write_uuid_tag(UUID_TAG, Uuid(1)) \o content)
HistoryDocuments == {Document(InRoot(GroupOf(HistoryEntry(kind)))) : kind \in NestedKinds}

\* Elements the format does not know, in a group, in an entry and in Meta:
\* with text only, or with children named like elements of the format.
UNKNOWN_TAG == "Foo"
ProtectedString(name, text, at) ==
    StringEl(name, <<<<"Protected", "True">>>>,
             <<Chars(Base64Encode(salsa20_encrypt(Advance(BaseCipher, at), Utf8(Str(text)))))>>)
UnknownKinds == {"none", "text", "name", "string", "entry", "meta"}
Unknown(kind, here, content) == IF kind = here THEN ElementOf(UNKNOWN_TAG, content) ELSE <<>>
UnknownDocument(kind) ==
    <<StartEl(KEE_PASS_FILE_TAG, <<>>)>>
        \o ElementOf(META_TAG,
                Unknown(kind, "meta", write_string_tag(GENERATOR_TAG, Str("KeePass"))
                                          \o ElementOf(META_TAG, <<>>))
                    \o write_string_tag(DATABASE_NAME_TAG, Str("db")))
        \o InRoot(GroupOf(
                Unknown(kind, "text", <<Chars(Str("t1"))>>)
                    \o Unknown(kind, "name", write_string_tag(NAME_TAG, Str("sub")))
                    \o ElementOf(ENTRY_TAG,
                           write_uuid_tag(UUID_TAG, Uuid(3))
                               \o Unknown(kind, "string", ProtectedString("Title", "sec", 0))
                               \o Unknown(kind, "entry", ElementOf(ENTRY_TAG, <<>>))
                               \o ProtectedString("Password", "pw", 0))))
        \o <<EndEl(KEE_PASS_FILE_TAG)>>
UnknownDocuments == {UnknownDocument(kind) : kind \in UnknownKinds}

ElementDocuments == ValueDocuments \cup HistoryDocuments \cup UnknownDocuments

\* Files as KeePass writes them when the compressed document is longer
\* than a block: one GZip stream of the document, cut into two data blocks
\* after `at` bytes.
SplitDocument == Document(RootElement("one"))
SplitStream == GzipEncode(SplitDocument)
SplitPoints == {1, Len(SplitStream) \div 2, Len(SplitStream) - 1}
SplitStreamFile(at) ==
    HeaderBytes(DB_SIGNATURE, KDB2_SIGNATURE, BaseRecords)
        \o AesEncrypt(BaseKey, BaseRandom.master_iv,
                      BaseRandom.stream_start_bytes
                          \o write_block(0, Take(SplitStream, at))
                          \o write_block(1, Drop(SplitStream, at))
                          \o write_block_final(2))
SplitStreamFiles == {SplitStreamFile(at) : at \in SplitPoints}

\* A document or a file with a split stream about to be opened, or the base
\* database about to be saved and then opened.
InitElements ==
    /\ \/ pc = "save" /\ db = BaseDb /\ input = <<>>
       \/ pc = "open" /\ db = BaseDb
             /\ input \in {DocumentFile(x) : x \in ElementDocuments} \cup SplitStreamFiles
    /\ Unread /\ key = "key1"
SpecElements == InitElements /\ [][Next]_vars

(***************************************************************************)
(* StringKey::from_string and StringKey::to_string, applied one after the  *)
(* other to a name and to a key.                                            *)
(***************************************************************************)
KeyNames == {"Notes", "notes", "NOTES", "Password", "password", "PASSWORD",
             "Title", "title", "TITLE", "URL", "Url", "url",
             "UserName", "Username", "username", "USERNAME",
             "FooBar", "foobar", "K", "k", ""}
StandardKeys == {<<"Notes", "">>, <<"Password", "">>, <<"Title", "">>, <<"Url", "">>,
                 <<"Username", "">>}
StringKeys == StandardKeys \cup {<<"Other", name>> : name \in KeyNames}

KeyFrame ==
    /\ UNCHANGED <<db, input, key, pos, is_logging, log_data, version, headers,
                   header_hash, payload, cur, block_id, xml, xml_data, result>>
    /\ UNCHANGED <<key_file, curr, todo, yielded, subject, sink, transferred, cut>>

\* StringKey::from_string(subject)
KeyFromString ==
    /\ pc = "from_string"
    /\ receiver' = from_string(subject)
    /\ pc' = "to_string_back"
    /\ UNCHANGED out
    /\ KeyFrame
\* receiver.to_string(), on the key from_string returned
ToStringBack ==
    /\ pc = "to_string_back"
    /\ out' = to_string(receiver)
    /\ pc' = "string_done"
    /\ UNCHANGED receiver
    /\ KeyFrame
\* subject.to_string()
KeyToString ==
    /\ pc = "to_string"
    /\ receiver' = to_string(subject)
    /\ pc' = "from_string_back"
    /\ UNCHANGED out
    /\ KeyFrame
\* StringKey::from_string(&receiver), on the string to_string returned
FromStringBack ==
    /\ pc = "from_string_back"
    /\ out' = from_string(receiver)
    /\ pc' = "key_done"
    /\ UNCHANGED receiver
    /\ KeyFrame

InitStringKey ==
    /\ \/ pc = "from_string" /\ subject \in {Str(name) : name \in KeyNames}
       \/ pc = "to_string" /\ subject \in StringKeys
    /\ out = <<>> /\ sink = <<>> /\ transferred = <<>> /\ cut = 0
    /\ db = BaseDb /\ input = <<>> /\ key = "key1" /\ pos = 0 /\ is_logging = FALSE
    /\ log_data = <<>> /\ version = [major |-> 0, minor |-> 0] /\ headers = EmptyHeaders
    /\ header_hash = <<>> /\ payload = <<>> /\ cur = 0 /\ block_id = 0 /\ xml = <<>>
    /\ xml_data = XmlDataDefault /\ result = Running /\ key_file = NoKeyFile
    /\ receiver = NoneV /\ curr = NoneV /\ todo = <<>> /\ yielded = <<>>
NextStringKey == KeyFromString \/ ToStringBack \/ KeyToString \/ FromStringBack
SpecStringKey == InitStringKey /\ [][NextStringKey]_vars

(***************************************************************************)
(* write_comment and read_comment on comments up to and beyond the length  *)
(* a 16-bit size field can hold.  Byte strings are kept as runs of equal    *)
(* bytes, [byte, count], so that a comment of 65537 bytes is one run.       *)
(***************************************************************************)
U16_MAX == 65535
Run(byte, count) == [byte |-> byte, count |-> count]
RECURSIVE RunsLen(_)
RunsLen(rs) == IF rs = <<>> THEN 0 ELSE rs[1].count + RunsLen(Tail(rs))
\* The byte at position p (from 0) of a string of runs, -1 past its end.
RECURSIVE ByteAt(_, _)
ByteAt(rs, p) ==
    IF rs = <<>> THEN -1
    ELSE IF p < rs[1].count THEN rs[1].byte
    ELSE ByteAt(Tail(rs), p - rs[1].count)
\* The bytes a string of runs stands for.
RECURSIVE Expand(_)
Expand(rs) == IF rs = <<>> THEN <<>> ELSE Fill(rs[1].count, rs[1].byte) \o Expand(Tail(rs))

\* `len as u16`: the low 16 bits.
AsU16(n) == n % (U16_MAX + 1)

\* write_comment on a comment of `comment.count` bytes `comment.byte`:
\* write_header_id, write_header_size(len as u16), write_bytes.
write_comment_runs(comment) ==
    <<Run(COMMENT_HID, 1), Run(AsU16(comment.count) % 256, 1),
      Run(AsU16(comment.count) \div 256, 1), comment>>

CommentLengths == {0, 1, 3, 255, 256, 257, U16_MAX - 1, U16_MAX, U16_MAX + 1, U16_MAX + 2,
                   U16_MAX + 4, 2 * (U16_MAX + 1), 2 * (U16_MAX + 1) + 3}
CommentBytes == {0, 1, 2, 7, 255}
Comments == {Run(byte, count) : byte \in CommentBytes, count \in CommentLengths}

CommentFrame ==
    /\ UNCHANGED <<db, input, key, is_logging, log_data, version, headers,
                   header_hash, payload, cur, block_id, xml, xml_data, result>>
    /\ UNCHANGED <<key_file, receiver, curr, todo, yielded, subject, transferred, cut>>

\* kdb2_writer::write, from write_comment to the header id that
\* write_master_cipher writes next.
WriteComment ==
    /\ pc = "write_comment"
    /\ sink' = write_comment_runs(subject) \o <<Run(MASTER_CIPHER_HID, 1)>>
    /\ pc' = "read_comment"
    /\ UNCHANGED <<pos, out>>
    /\ CommentFrame

\* kdb2_reader::read, one turn of the loop over the header records on the
\* comment record: read_u8 for the id, then read_comment (read_u16 for the
\* size, read_bytes_size for the data).
ReadComment ==
    /\ pc = "read_comment"
    /\ ByteAt(sink, pos) = COMMENT_HID
    /\ LET size == ByteAt(sink, pos + 1) + 256 * ByteAt(sink, pos + 2)
           n == Min(size, RunsLen(sink) - (pos + 3))
       IN  /\ out' = <<Run(IF n = 0 THEN subject.byte ELSE ByteAt(sink, pos + 3), n)>>
           /\ pos' = pos + 3 + n
    /\ pc' = "read_next"
    /\ UNCHANGED sink
    /\ CommentFrame

\* kdb2_reader::read, the next turn of the loop: read_u8 for the id of the
\* record after the comment.
ReadNextId ==
    /\ pc = "read_next"
    /\ out' = out \o <<Run(ByteAt(sink, pos), 1)>>
    /\ pos' = pos + 1
    /\ pc' = "comment_read"
    /\ UNCHANGED sink
    /\ CommentFrame

InitComment ==
    /\ pc = "write_comment" /\ subject \in Comments
    /\ out = <<>> /\ sink = <<>> /\ transferred = <<>> /\ cut = 0
    /\ db = BaseDb /\ input = <<>> /\ key = "key1" /\ pos = 0 /\ is_logging = FALSE
    /\ log_data = <<>> /\ version = [major |-> 0, minor |-> 0] /\ headers = EmptyHeaders
    /\ header_hash = <<>> /\ payload = <<>> /\ cur = 0 /\ block_id = 0 /\ xml = <<>>
    /\ xml_data = XmlDataDefault /\ result = Running /\ key_file = NoKeyFile
    /\ receiver = NoneV /\ curr = NoneV /\ todo = <<>> /\ yielded = <<>>
NextComment == WriteComment \/ ReadComment \/ ReadNextId
SpecComment == InitComment /\ [][NextComment]_vars

(***************************************************************************)
(* Properties                                                              *)
(***************************************************************************)
\* The input is what save wrote for db.
SavedFile == \E r \in 0..MaxSeed : input = Write(db, Random(r))
Opened == pc = "done" /\ Kind(result) = "Ok"

\* C1: opening the bytes save produced for a database, with the key of the
\* database, succeeds and returns a database equal to it: same tree, same
\* UUIDs, same metadata (the generator included), same protected plaintexts.
C1_RoundTrip ==
    (pc = "done" /\ SavedFile /\ key = db.composite_key)
        => (Kind(result) = "Ok" /\ Args(result) = db)

\* C1, where it fails: the custom icon of a group is not written, so a saved
\* database whose root group has one is opened without it.
C1_IconLost ==
    /\ Opened /\ SavedFile /\ key = db.composite_key
    /\ db.generator = Str(GENERATOR_NAME)
    /\ IsSome(db.root_group.custom_icon_uuid)
    /\ Args(result).root_group.custom_icon_uuid = NoneV
    /\ [Args(result) EXCEPT !.root_group.custom_icon_uuid = db.root_group.custom_icon_uuid] = db

\* C2: opening a saved database with another composite key always fails with
\* InvalidKey: never Ok, never a panic, never another error.
C2_WrongKeyIsInvalidKey ==
    (pc = "done" /\ SavedFile /\ key # db.composite_key) => IsErr(result, "InvalidKey")

\* C2, where it fails: the padding check of the decryption fails first and
\* its error is returned.
C2_PaddingError ==
    /\ pc = "done" /\ SavedFile /\ key # db.composite_key
    /\ IsErr(result, "CryptoError") /\ Args(result) = <<"InvalidPadding">>

\* The first and the second signature of an input of at least 8 bytes.
Sig1 == SubSeq(input, 1, 4)
Sig2 == SubSeq(input, 5, 8)
Classified == pc \notin {"save", "open"} /\ Len(input) >= 8
SignatureErrors == {"InvalidDbSignature", "UnhandledDbType"}
KnownSignatures ==
    /\ Sig1 # DB_SIGNATURE =>
          IsErr(result, "InvalidDbSignature") /\ Args(result) = Sig1
    /\ (Sig1 = DB_SIGNATURE /\ Sig2 = KDB1_SIGNATURE) =>
          IsErr(result, "UnhandledDbType") /\ Args(result) = Sig2
    /\ (Sig1 = DB_SIGNATURE /\ Sig2 = KDB2_SIGNATURE) =>
          ~(Kind(result) = "Err" /\ Name(result) \in SignatureErrors)
OtherSignature == Sig1 = DB_SIGNATURE /\ Sig2 \notin {KDB1_SIGNATURE, KDB2_SIGNATURE}

\* C3 as stated: a wrong first signature is InvalidDbSignature, the KDB1
\* second signature is UnhandledDbType, the KDB2 second signature goes on to
\* the KDB2 reader, and any other second signature is InvalidDbSignature.
C3_OtherIsInvalidSignature ==
    Classified => /\ KnownSignatures
                  /\ OtherSignature => IsErr(result, "InvalidDbSignature")

\* C3 restated: as above, but any other second signature is UnhandledDbType
\* carrying the four bytes read.
C3_OtherIsUnhandledDbType ==
    Classified => /\ KnownSignatures
                  /\ OtherSignature =>
                        IsErr(result, "UnhandledDbType") /\ Args(result) = Sig2

\* C3, the case: a file with the right first signature and a second
\* signature that is neither KDB1 nor KDB2 has been rejected.
C3_OtherSeen == Classified /\ OtherSignature /\ pc = "done" /\ Kind(result) = "Err"

\* The block the reader is about to read: the fields at the cursor of the
\* block stream, which follows the 32 stream start bytes.
Stream == Drop(payload, 32)
AtBlock == pc = "blocks" /\ Avail(Stream, cur) >= 40
CurId == FromLE(SubSeq(Stream, cur + 1, cur + 4))
CurHash == SubSeq(Stream, cur + 5, cur + 36)
CurSize == FromLE(SubSeq(Stream, cur + 37, cur + 40))
CurData == SubSeq(Stream, cur + 41, cur + 40 + CurSize)
AtDataBlock == AtBlock /\ CurSize > 0 /\ Avail(Stream, cur) >= 40 + CurSize
Fails(name) == pc' = "done" /\ IsErr(result', name)

\* C4 as stated: every block of size > 0 whose stored hash differs from
\* SHA-256 of its raw data makes open fail with InvalidBlockHash.
C4_AnyBadHashIsInvalidBlockHash ==
    [][(AtDataBlock /\ Sha256(CurData) # CurHash) => Fails("InvalidBlockHash")]_vars

\* C4 restated: a block of size > 0 that carries the expected id and whose
\* stored hash differs from SHA-256 of its raw data makes open fail with
\* InvalidBlockHash; no database is returned.
C4_BadHashWithExpectedId ==
    [][(AtDataBlock /\ CurId = block_id /\ Sha256(CurData) # CurHash)
          => Fails("InvalidBlockHash")]_vars

\* C4, the case: after a good block, a block with the expected id and one
\* byte of its data changed has been rejected with InvalidBlockHash.
C4_FlippedSeen ==
    /\ pc = "done" /\ IsErr(result, "InvalidBlockHash") /\ block_id > 0
    /\ CurId = block_id /\ CurSize > 0 /\ CurData[1] = B(0)
    /\ Sha256(CurData) # CurHash

\* C6: the k-th block read must carry id k: a block is accepted only with
\* the id of the loop counter, and a block with another id, the zero-size
\* final block included, makes open fail with InvalidBlockId of that id.
C6_BlockIdOrder ==
    [][/\ (AtBlock /\ CurId # block_id) =>
              (Fails("InvalidBlockId") /\ Args(result') = <<CurId>>)
       /\ (pc = "blocks" /\ pc' \in {"blocks", "xml"}) => (AtBlock /\ CurId = block_id)]_vars

\* C6, the case: after at least one good block, a zero-size block with
\* another id has been rejected with InvalidBlockId of its id.
C6_FinalWithOtherIdSeen ==
    /\ pc = "done" /\ IsErr(result, "InvalidBlockId") /\ block_id > 0
    /\ CurSize = 0 /\ CurHash = FINAL_BLOCK_HASH
    /\ CurId # block_id /\ Args(result) = <<CurId>>

\* What the reader does at a zero-size block: with the all-zero hash it
\* leaves the loop with the data accumulated so far, whatever follows the
\* block; with another hash open fails with InvalidFinalBlockHash.
FinalBlockStep ==
    IF CurHash = FINAL_BLOCK_HASH
    THEN pc' = "xml" /\ xml' = xml /\ result' = result
    ELSE Fails("InvalidFinalBlockHash") /\ Args(result') = CurHash

\* C7 as stated: every block of size 0 ends the stream in one of these ways.
C7_AnyFinalBlock ==
    [][(AtBlock /\ CurSize = 0) => FinalBlockStep]_vars

\* C7 restated: a block of size 0 that carries the expected id ends the
\* stream in one of these ways.
C7_FinalBlockWithExpectedId ==
    [][(AtBlock /\ CurSize = 0 /\ CurId = block_id) => FinalBlockStep]_vars

\* C7, the case: the final block has been read after data blocks and bytes
\* follow it that the reader leaves unread.
C7_TrailingIgnoredSeen ==
    /\ pc = "xml" /\ xml # <<>> /\ cur < Len(Stream) /\ cur >= 40
    /\ SubSeq(Stream, cur - 35, cur - 4) = FINAL_BLOCK_HASH
    /\ FromLE(SubSeq(Stream, cur - 3, cur)) = 0

\* The stream has run out: fewer bytes are left than the fixed fields of a
\* block take.
RunsOut == pc = "blocks" /\ Avail(Stream, cur) < 40
\* A database is returned only after the final block was read.
NoDatabaseWithoutFinalBlock ==
    (pc' = "done" /\ Kind(result') = "Ok") =>
        /\ cur >= 40
        /\ SubSeq(Stream, cur - 35, cur - 4) = FINAL_BLOCK_HASH
        /\ FromLE(SubSeq(Stream, cur - 3, cur)) = 0

RECURSIVE EndOfHeader(_, _)
EndOfHeader(inp, p) ==
    IF Avail(inp, p) < 3 THEN -1
    ELSE LET id == FromLE(SubSeq(inp, p + 1, p + 1))
             size == FromLE(SubSeq(inp, p + 2, p + 3))
         IN  IF Avail(inp, p + 3) < size THEN -1
             ELSE IF id = END_HID THEN p + 3 + size
             ELSE EndOfHeader(inp, p + 3 + size)
HeaderOf(inp) == SubSeq(inp, 1, EndOfHeader(inp, 12))

\* The decoded value of the HeaderHash element of a document, if it has one.
DocHeaderHash(x) ==
    LET i == IndexOfStart(x, HEADER_HASH_TAG, 1)
    IN  IF i = 0 THEN NoneV
        ELSE IF x[i + 1][2][1] = "chars" THEN Some(x[i + 1][2][3][2])
        ELSE Some(<<>>)

AtRecord == pc = "headers" /\ Avail(input, pos) >= 3
RecId == FromLE(SubSeq(input, pos + 1, pos + 1))
RecSize == FromLE(SubSeq(input, pos + 2, pos + 3))
SizeTable ==
    (MASTER_CIPHER_HID :> 16) @@ (COMPRESSION_HID :> 4) @@ (MASTER_SEED_HID :> 32)
        @@ (TRANSFORM_SEED_HID :> 32) @@ (TRANSFORM_ROUNDS_HID :> 8) @@ (MASTER_IV_HID :> 16)
        @@ (PROTECTED_STREAM_KEY_HID :> 32) @@ (STREAM_START_BYTES_HID :> 32)
        @@ (STREAM_CIPHER_HID :> 4)

\* C9: a record of one of the nine fixed-size headers whose size field
\* differs from the table makes open fail with InvalidHeaderSize carrying
\* the id, the table size and the size read; a Comment or End record is
\* accepted with any size.
C9_HeaderSize ==
    [][AtRecord =>
        /\ (RecId \in DOMAIN SizeTable /\ RecSize # SizeTable[RecId]) =>
              /\ Fails("InvalidHeaderSize")
              /\ Args(result') = <<RecId, SizeTable[RecId], RecSize>>
        /\ RecId \in {COMMENT_HID, END_HID} =>
              /\ result' = result
              /\ pc' = IF RecId = END_HID THEN "end" ELSE "headers"]_vars

\* C9, the case: a record of a fixed-size header with another size has been
\* rejected.
C9_ResizedSeen ==
    /\ pc = "done" /\ IsErr(result, "InvalidHeaderSize")
    /\ Args(result)[1] = RecId /\ Args(result)[3] = RecSize
    /\ RecSize # SizeTable[RecId]

\* The required headers that have not appeared.
Missing == {id \in 2..10 : ~IsSome(headers[id])}

\* C10: when the End record is reached with required headers missing, open
\* fails with MissingHeader of the id of a header that is missing; with all
\* nine present it goes on, whether or not a Comment appeared.
C10_MissingHeader ==
    [][pc = "end" =>
        IF Missing # {}
        THEN Fails("MissingHeader") /\ Args(result')[1] \in Missing
        ELSE pc' = "decrypt" /\ result' = result]_vars

\* C10, the case: the End record was reached with two required headers
\* missing and open has failed with MissingHeader.
C10_TwoMissingSeen ==
    pc = "done" /\ IsErr(result, "MissingHeader") /\ Cardinality(Missing) = 2
\* The protected values of an entry and of a tree of groups, each at its
\* place: the entry's protected strings and binaries with their plaintexts,
\* and those of the versions in its history.
IsProtected(value) == value[1] = "Protected"
ProtectedOnly(map) == [k \in {j \in DOMAIN map : IsProtected(map[j])} |-> map[k]]
ProtectedOfEntry(entry) ==
    [strings |-> ProtectedOnly(entry.strings), binaries |-> ProtectedOnly(entry.binaries),
     history |-> [k \in 1..Len(entry.history) |->
                    [strings |-> ProtectedOnly(entry.history[k].strings),
                     binaries |-> ProtectedOnly(entry.history[k].binaries)]]]
RECURSIVE ProtectedOfGroup(_)
ProtectedOfGroup(group) ==
    [entries |-> [k \in 1..Len(group.entries) |-> ProtectedOfEntry(group.entries[k])],
     groups |-> [k \in 1..Len(group.groups) |-> ProtectedOfGroup(group.groups[k])]]
HasProtected(entry) ==
    \E k \in DOMAIN entry.strings \cup DOMAIN entry.binaries :
        IsProtected(IF k \in DOMAIN entry.strings THEN entry.strings[k] ELSE entry.binaries[k])

\* C11: every protected string and binary value read back by open after
\* save has exactly the plaintext it had before the save, whatever the
\* number and the placement of the protected values in groups, entries and
\* history entries: the same entries, the same keys, the same plaintexts.
C11_ProtectedPlaintexts ==
    (pc = "done" /\ SavedFile /\ key = db.composite_key)
        => /\ Kind(result) = "Ok"
           /\ ProtectedOfGroup(Args(result).root_group) = ProtectedOfGroup(db.root_group)

\* C11, the case: a database saved with the maps iterated in reverse, with
\* protected strings and binaries in a root entry, in an older version of it
\* and in an entry of a subgroup, has been opened.
C11_PlacedEverywhereSeen ==
    /\ Opened /\ key = db.composite_key /\ input = Write(db, Random(1))
    /\ db.root_group.entries[1].history # <<>>
    /\ db.root_group.groups # <<>>
    /\ \E k \in DOMAIN db.root_group.entries[1].binaries :
            IsProtected(db.root_group.entries[1].binaries[k])
    /\ HasProtected(db.root_group.entries[1].history[1])
    /\ \E k \in DOMAIN db.root_group.groups[1].entries[1].binaries :
            IsProtected(db.root_group.groups[1].entries[1].binaries[k])
    /\ Args(result).root_group.entries[1].history = db.root_group.entries[1].history

\* The input is the file of the document with the given Root element.
OpenedDocument(root) ==
    pc = "done" /\ key = BaseDb.composite_key /\ input = DocumentFile(Document(root))
RootGroup == Args(result).root_group

\* C12: after a successful open the database has exactly one root group:
\* the top-level Group element under Root when there is one (the last of
\* them when there are several), otherwise a new group named "Root" with a
\* UUID that is not nil and with no entries and no groups.
C12_RootGroup ==
    /\ OpenedDocument(RootElement("one")) => Kind(result) = "Ok" /\ RootGroup = GroupA
    /\ OpenedDocument(RootElement("two")) => Kind(result) = "Ok" /\ RootGroup = GroupB
    /\ \A kind \in {"absent", "empty"} :
          OpenedDocument(RootElement(kind)) =>
              /\ Kind(result) = "Ok"
              /\ RootGroup.name = Str(ROOT_GROUP_NAME)
              /\ RootGroup.uuid # NilUuid
              /\ RootGroup.entries = <<>> /\ RootGroup.groups = <<>>

\* C12, the case: a document without a Root element has been opened and the
\* database has a new root group.
C12_NoRootSeen ==
    /\ OpenedDocument(RootElement("absent")) /\ Kind(result) = "Ok"
    /\ xml_data.root_group = NoneV
    /\ RootGroup.uuid \in RandomUuids

\* No group and no entry of the tree has the nil UUID.
RECURSIVE NoNilUuid(_)
NoNilUuid(group) ==
    /\ group.uuid # NilUuid
    /\ \A k \in 1..Len(group.entries) : group.entries[k].uuid # NilUuid
    /\ \A k \in 1..Len(group.groups) : NoNilUuid(group.groups[k])
\* The UUIDs of a tree, each at its place.
RECURSIVE UuidsOf(_)
UuidsOf(group) ==
    [uuid |-> group.uuid,
     entries |-> [k \in 1..Len(group.entries) |-> group.entries[k].uuid],
     groups |-> [k \in 1..Len(group.groups) |-> UuidsOf(group.groups[k])]]
\* The document save writes for the opened database, read again.
Resaved ==
    xml_read(xml_write(Args(result), header_hash, StreamKey(BaseRandom.protected_stream_key),
                       "forward"),
             StreamKey(BaseRandom.protected_stream_key))
UuidsWrittenBack ==
    Kind(Resaved) = "Ok" /\ UuidsOf(Unwrap(Args(Resaved).root_group)) = UuidsOf(RootGroup)

\* C13: every group and every entry of an opened database has a UUID that
\* is not nil, also when its element in the document has no UUID child, and
\* save writes each UUID as it was read.
C13_NonNilUuids == Opened => (NoNilUuid(RootGroup) /\ UuidsWrittenBack)

\* C13, where it fails: a document whose Group element has no UUID child has
\* been opened, and the group has the nil UUID, which save writes back.
C13_NilUuidSeen ==
    /\ Opened /\ OpenedDocument(InRoot(WithoutUuidOf(GroupAEvents, GROUP_TAG)))
    /\ RootGroup.uuid = NilUuid
    /\ RootGroup = [GroupA EXCEPT !.uuid = NilUuid]
    /\ UuidsWrittenBack

\* Every binary an entry of the tree, or an older version of it, holds by
\* reference is in the table of the database.
RefsOfEntry(entry) ==
    {entry.binaries[k][2] : k \in {j \in DOMAIN entry.binaries : entry.binaries[j][1] = "Ref"}}
RefsOfEntries(entries) ==
    UNION {RefsOfEntry(entries[k]) \cup
           UNION {RefsOfEntry(entries[k].history[h]) : h \in 1..Len(entries[k].history)} :
           k \in 1..Len(entries)}
RECURSIVE RefsOfGroup(_)
RefsOfGroup(group) ==
    RefsOfEntries(group.entries)
        \cup UNION {RefsOfGroup(group.groups[k]) : k \in 1..Len(group.groups)}
RefsExist(d) == RefsOfGroup(d.root_group) \subseteq DOMAIN d.binaries

\* C14: save produces a file only when every binary held by reference by an
\* entry, active or in a history, names an id of the table of binaries of
\* the database: no saved file holds a reference to a missing binary.
C14_SavedRefsExist == (pc # "save" /\ SavedFile) => RefsExist(db)

\* C14, where it fails: a database whose entry refers to a binary that is
\* not in the table has been saved, and the file opens with the reference
\* still dangling.
C14_DanglingRefSaved ==
    /\ Opened /\ SavedFile /\ key = db.composite_key
    /\ "7" \in RefsOfGroup(db.root_group) /\ "7" \notin DOMAIN db.binaries
    /\ Args(result).binaries = db.binaries
    /\ RefsOfGroup(RootGroup) = RefsOfGroup(db.root_group)

\* C15: when the text of an optional field of the document cannot be
\* converted, open does not fail: the field keeps its default value and the
\* rest is read; a String without its Key aborts the read with an XML error.
C15_OptionalFieldsDefault ==
    /\ \A bad \in BadFields :
          OpenedDocument(BadFieldRoot(bad)) =>
              /\ Kind(result) = "Ok"
              /\ RootGroup = [GroupA EXCEPT ![bad.field] = GroupDefault[bad.field]]
    /\ OpenedDocument(NoKeyRoot) => IsErr(result, "XmlError")

\* C15, where it fails: a document whose IconID is not a number, and one
\* whose CreationTime is not a date and time, have been rejected with an
\* XML error.
C15_BadFieldRejected ==
    /\ \E bad \in BadFields :
          /\ bad.tag \in {ICON_ID_TAG, CREATION_TIME_TAG} /\ bad.text = Str("x")
          /\ OpenedDocument(BadFieldRoot(bad))
    /\ IsErr(result, "XmlError")
    /\ xml_data.root_group = NoneV

\* All the bytes are hex digits, in either case.
AllHex(data) == \A i \in 1..Len(data) : HexValue(data[i]) # -1

C17_KeyFileRoundTrip == (pc = "kf_done" /\ key_file # NoKeyFile) => result = Ok(key_file)

\* C17, the case: a hex key file with bytes above 9 in both digits has been
\* saved and opened.
C17_HexSavedSeen ==
    /\ pc = "kf_done" /\ key_file # NoKeyFile /\ key_file.file_type = "Hex"
    /\ key_file.key[1] = B(171) /\ input = to_hex(key_file.key) /\ Len(input) = 64
    /\ result = Ok(key_file)

\* ---- Group iterators ----
IsPrefixOf(s, t) == Len(s) <= Len(t) /\ SubSeq(t, 1, Len(s)) = s
\* The references among the values returned so far.
YieldedRefs == [n \in 1..Len(yielded) - Nones(yielded) |-> yielded[n][2]]
Iterating == pc \in {"iter", "iter_mut"}

\* Pre-order: a group, then the whole subtree of each child group in turn.
RECURSIVE PreOrder(_, _), PreOrderSubs(_, _, _)
PreOrder(g, path) == <<path>> \o PreOrderSubs(g, path, 1)
PreOrderSubs(g, path, n) ==
    IF n > Len(GroupAt(g, path).groups) THEN <<>>
    ELSE PreOrder(g, Append(path, n)) \o PreOrderSubs(g, path, n + 1)

\* Level order: the receiver, then the groups of each depth in turn, those
\* of one depth in the order of their parents and of the parents' lists.
RECURSIVE SubsOfAll(_, _)
SubsOfAll(g, paths) ==
    IF paths = <<>> THEN <<>>
    ELSE SubsOf(g, Head(paths)) \o SubsOfAll(g, Tail(paths))
RECURSIVE LevelsFrom(_, _)
LevelsFrom(g, level) ==
    IF level = <<>> THEN <<>> ELSE level \o LevelsFrom(g, SubsOfAll(g, level))
LevelOrder(g) == LevelsFrom(g, <<<<>>>>)

RECURSIVE LexLess(_, _)
LexLess(p, q) ==
    IF p = <<>> THEN q # <<>>
    ELSE IF q = <<>> THEN FALSE
    ELSE IF Head(p) # Head(q) THEN Head(p) < Head(q)
    ELSE LexLess(Tail(p), Tail(q))
\* p comes before q in level order.
LevelLess(p, q) == Len(p) < Len(q) \/ (Len(p) = Len(q) /\ LexLess(p, q))

\* C18 (as stated): Group::iter and Group::iter_mut visit the groups in
\* pre-order: what has been returned is always a prefix of the pre-order
\* listing of the receiver's tree.
C18_PreOrder ==
    Iterating => IsPrefixOf(YieldedRefs, PreOrder(receiver, <<>>))

\* C18 (amended): Group::iter and Group::iter_mut visit the groups level by
\* level: a group returned earlier is never deeper than one returned later,
\* and of two groups of the same depth the one under the earlier parent, or
\* earlier in the same parent's list, is returned first.
C18_LevelByLevel ==
    Iterating =>
        \A n \in 1..Len(YieldedRefs) : \A m \in 1..Len(YieldedRefs) :
            n < m => LevelLess(YieldedRefs[n], YieldedRefs[m])

\* C18 witness: Iter::next has returned the second child of the receiver
\* right after the first child, whose own child groups are still to come.
C18_ChildBeforeGrandchildSeen ==
    /\ pc = "iter"
    /\ Len(yielded) = 3
    /\ yielded[2] = Some(<<1>>)
    /\ yielded[3] = Some(<<2>>)
    /\ GroupAt(receiver, <<1>>).groups # <<>>

\* C19: the values returned by Group::iter and Group::iter_mut are the
\* receiver, then all its child groups in list order, then all their child
\* groups, each group once, and None from then on; on the tree of the tests
\* the order is root, sub_1, sub_2, sub_1_1, sub_1_2, sub_2_1, sub_2_2, None.
C19_TestOrder ==
    Iterating =>
        /\ IsPrefixOf(YieldedRefs, LevelOrder(receiver))
        /\ \A n \in 1..Len(yielded) :
               yielded[n] = NoneV => n > Len(LevelOrder(receiver))
        /\ LevelOrder(TestTree) =
               << <<>>, <<1>>, <<2>>, <<1, 1>>, <<1, 2>>, <<2, 1>>, <<2, 2>> >>

\* C19 witness: IterMut::next has returned the seven groups of the tree of
\* the tests, each renamed by the loop body, and then None.
C19_TestTreeExhaustedSeen ==
    /\ pc = "iter_mut"
    /\ Len(receiver.groups) = 2
    /\ Len(receiver.groups[1].groups) = 2
    /\ Len(receiver.groups[2].groups) = 2
    /\ Len(yielded) = 8
    /\ yielded[7] = Some(<<2, 2>>)
    /\ yielded[8] = NoneV
    /\ GroupAt(receiver, <<2, 2>>).name = Str("6")

\* ---- Header records of a saved file ----
\* The ids of the records from position p up to and including the first
\* End record; -1 closes the list when the bytes run out before one.
RECURSIVE RecordIds(_, _)
RecordIds(inp, p) ==
    IF Avail(inp, p) < 3 THEN <<-1>>
    ELSE IF Avail(inp, p + 3) < FromLE(SubSeq(inp, p + 2, p + 3)) THEN <<-1>>
    ELSE IF FromLE(SubSeq(inp, p + 1, p + 1)) = END_HID THEN <<END_HID>>
    ELSE <<FromLE(SubSeq(inp, p + 1, p + 1))>>
             \o RecordIds(inp, p + 3 + FromLE(SubSeq(inp, p + 2, p + 3)))

SavedOrder(d) ==
    (IF IsSome(d.comment) THEN <<COMMENT_HID>> ELSE <<>>)
        \o <<MASTER_CIPHER_HID, COMPRESSION_HID, MASTER_SEED_HID, TRANSFORM_SEED_HID,
             TRANSFORM_ROUNDS_HID, MASTER_IV_HID, PROTECTED_STREAM_KEY_HID,
             STREAM_CIPHER_HID, STREAM_START_BYTES_HID, END_HID>>

\* C20: the bytes save wrote are the two signatures, the version, then the
\* header records Comment (only for a database with a comment), MasterCipher,
\* Compression, MasterSeed, TransformSeed, TransformRounds, MasterIV,
\* ProtectedStreamKey, StreamCipher, StreamStartBytes, End, each once and in
\* this order, and the encrypted payload is everything after the End record.
C20_HeaderOrder ==
    (pc = "open" /\ SavedFile) =>
        /\ SubSeq(input, 1, 8) = DB_SIGNATURE \o KDB2_SIGNATURE
        /\ SubSeq(input, 9, 12) = LE(db.version.minor, 2) \o LE(db.version.major, 2)
        /\ RecordIds(input, 12) = SavedOrder(db)
        /\ IsCiphertext(Drop(input, EndOfHeader(input, 12)))
        /\ \A n \in 1..EndOfHeader(input, 12) : input[n][1] = "b"

\* C20 witness: an uncompressed database with a comment has been saved, and
\* the Comment record is the first of eleven.
C20_CommentFirstSeen ==
    /\ pc = "open" /\ SavedFile /\ IsSome(db.comment) /\ db.compression = "None"
    /\ Len(RecordIds(input, 12)) = 11
    /\ RecordIds(input, 12)[1] = COMMENT_HID
    /\ RecordIds(input, 12)[11] = END_HID

\* ---- Formatted output ----
\* The same value with every secret replaced by another one: protected
\* strings and binaries, key bytes.
OtherString(t) == IF t = Str("other") THEN Str("another one") ELSE Str("other")
OtherBytes(b) == IF b = Bytes(<<9, 9, 9>>) THEN Bytes(<<8>>) ELSE Bytes(<<9, 9, 9>>)
OtherStringValue(v) == IF v[1] = "Protected" THEN <<"Protected", OtherString(v[2])>> ELSE v
OtherBinaryValue(v) == IF v[1] = "Protected" THEN <<"Protected", OtherBytes(v[2])>> ELSE v
RECURSIVE OtherEntry(_)
OtherEntry(e) ==
    [uuid |-> e.uuid,
     strings |-> [k \in DOMAIN e.strings |-> OtherStringValue(e.strings[k])],
     binaries |-> [k \in DOMAIN e.binaries |-> OtherBinaryValue(e.binaries[k])],
     history |-> [n \in 1..Len(e.history) |-> OtherEntry(e.history[n])]]
RECURSIVE OtherGroup(_)
OtherGroup(g) ==
    [g EXCEPT !.entries = [n \in 1..Len(g.entries) |-> OtherEntry(g.entries[n])],
              !.groups = [n \in 1..Len(g.groups) |-> OtherGroup(g.groups[n])]]
OtherKey(k) == IF k = "key1" THEN "key2" ELSE "key1"
OtherSecrets(s) ==
    [s EXCEPT !.value =
        CASE s.kind = "StringValue" -> OtherStringValue(s.value)
          [] s.kind = "BinaryValue" -> OtherBinaryValue(s.value)
          [] s.kind = "Entry" -> OtherEntry(s.value)
          [] s.kind = "Group" -> OtherGroup(s.value)
          [] s.kind = "CompositeKey" -> OtherKey(s.value)
          [] s.kind = "KeyFile" -> [s.value EXCEPT !.key = OtherBytes(@)]
          [] s.kind = "Database" ->
                [s.value EXCEPT !.composite_key = OtherKey(@),
                                !.root_group = OtherGroup(@)]]

\* C21: the text {:?} gives for a StringValue, BinaryValue, Entry, Group,
\* CompositeKey, KeyFile or Database is the text it gives for the value that
\* differs from it in every secret (composite key, protected strings and
\* binaries, key file bytes) and in nothing else.
C21_SecretsNotFormatted ==
    pc = "fmt_done" => out = Debug(OtherSecrets(subject))

\* C21 witness: a database with protected strings and binaries in an entry,
\* in its history and in a subgroup has been formatted, and so has the one
\* with other secrets, which is another database.
C21_DatabaseFormattedSeen ==
    /\ pc = "fmt_done" /\ subject.kind = "Database"
    /\ subject.hash_order = "reverse"
    /\ HasProtected(subject.value.root_group.entries[1])
    /\ subject.value.root_group.entries[1].history # <<>>
    /\ subject.value.root_group.groups # <<>>
    /\ OtherSecrets(subject) # subject
    /\ out.composite_key = <<"CompositeKey", "***SECRET***">>

\* C22 (as claimed): opening the bytes a save produced never fails with
\* InvalidHeaderHash, whatever else happens to the open.
C22_NeverInvalidHeaderHash ==
    (SavedFile /\ pc = "done") => Name(result) # "InvalidHeaderHash"
\* C22: the header hash the writer puts into the XML is the SHA-256 of the
\* header bytes of the same file, so the reader of a saved file holds in
\* xml_data the hash of the bytes up to the end of the header.
C22_WrittenHashIsHeaderHash ==
    (SavedFile /\ pc = "check") => xml_data.header_hash = Some(Sha256(HeaderOf(input)))
\* A saved file was read through a reader with a seam in its header, with
\* the key it was saved with, up to the comparison of the header hashes.
C22_SeamInSavedHeaderSeen ==
    /\ SavedFile /\ pc = "check"
    /\ 0 < cut /\ cut < Len(HeaderOf(input))
    /\ header_hash # Sha256(HeaderOf(input))

\* C23 (as claimed): whatever reads, writes, starts, stops and clears were
\* made, the log of a LogReader or LogWriter is the concatenation of the
\* bytes its inner reader or writer transferred while logging was on since
\* the last clear.
C23_LoggedIsTransferred ==
    pc \in {"reader", "writer"} => log_data = transferred
\* The part of C23 about the switches: logging is on at construction, start
\* and stop set it and leave the log alone, clear empties the log and leaves
\* the switch alone, and nothing is captured while logging is off.
C23_Switches ==
    [][/\ LogStart => is_logging' /\ log_data' = log_data
       /\ LogStop => ~is_logging' /\ log_data' = log_data
       /\ LogClear => log_data' = <<>> /\ is_logging' = is_logging
       /\ (LogReaderRead \/ LogWriterWrite) /\ ~is_logging => log_data' = log_data]_vars
\* A short read or a short write was made while logging was on: the inner
\* reader or writer moved fewer bytes than the log took.
C23_ShortTransferSeen ==
    /\ pc \in {"reader", "writer"}
    /\ is_logging
    /\ transferred # <<>>
    /\ Len(transferred) < Len(log_data)

\* The position of the key stream when the reader of a document that starts
\* with the KeePassFile element returns, with a value or with an error.
KeystreamAfter(x, stream_key) ==
    read_kee_pass_file(x, 2, new_cipher(stream_key), XmlDataDefault).cipher.at
\* The sum of the lengths of the cipher texts of the Value elements of the
\* String and Binary elements of a document that are marked Protected and,
\* in a Binary, hold no reference.  SectionAt is the String or Binary
\* element position i lies in.
SectionAt(x, i) ==
    LET marks == {j \in 1..(i - 1) : x[j][2][1] \in {"start", "end"}
                                      /\ x[j][2][2] \in {STRING_TAG, BINARY_TAG}}
        last == CHOOSE j \in marks : \A k \in marks : k <= j
    IN  IF marks = {} \/ x[last][2][1] = "end" THEN "" ELSE x[last][2][2]
ProtectedAt(x) ==
    {i \in 1..(Len(x) - 1) :
        /\ x[i][2][1] = "start" /\ x[i][2][2] = VALUE_TAG
        /\ search_attr_value(x[i][2][3], "protected") = Some("True")
        /\ x[i + 1][2][1] = "chars"
        /\ \/ SectionAt(x, i) = STRING_TAG
           \/ SectionAt(x, i) = BINARY_TAG /\ ~IsSome(search_attr_value(x[i][2][3], "ref"))}
RECURSIVE CipherTextLen(_, _)
CipherTextLen(x, at) ==
    IF at = {} THEN 0
    ELSE LET i == CHOOSE j \in at : TRUE
         IN  Len(Args(Base64Decode(x[i + 1][2][3]))) + CipherTextLen(x, at \ {i})
ProtectedLen(x) == CipherTextLen(x, ProtectedAt(x))

\* C24: when the reader has read a prefix of a document, the key stream has
\* moved on by the sum of the lengths of the cipher texts of the protected
\* values in that prefix; empty protected values, plain values, referenced
\* binaries and all other elements do not move it.
C24_KeystreamPosition ==
    (pc \in {"check", "done"} /\ xml \in ValueDocuments) =>
        KeystreamAfter(xml, StreamKey(Unwrap(headers[PROTECTED_STREAM_KEY_HID])))
            = ProtectedLen(xml)
\* The whole document was read: protected strings and binaries of the entry
\* and of its older version moved the key stream, the others did not.
C24_ProtectedValuesSeen ==
    /\ pc = "done" /\ Kind(result) = "Ok"
    /\ xml = ValueDocument
    /\ ProtectedLen(xml) > ProtectedLen(SubSeq(xml, 1, IndexOfStart(xml, HISTORY_TAG, 1)))
    /\ ProtectedLen(SubSeq(xml, 1, IndexOfStart(xml, HISTORY_TAG, 1))) > 0

\* The key of the inner stream, from the header of the file being read.
InnerKey == StreamKey(Unwrap(headers[PROTECTED_STREAM_KEY_HID]))
\* The first end tag named `tag` at or after position i, 0 without one.
RECURSIVE IndexOfEnd(_, _, _)
IndexOfEnd(x, tag, i) ==
    IF i > Len(x) THEN 0
    ELSE IF x[i][2][1] = "end" /\ x[i][2][2] = tag THEN i
    ELSE IndexOfEnd(x, tag, i + 1)
\* The position of a History element inside the first History element of a
\* document, 0 without one; and the document without that inner element.
NestedHistoryAt(x) ==
    LET outer == IndexOfStart(x, HISTORY_TAG, 1)
        inner == IF outer = 0 THEN 0 ELSE IndexOfStart(x, HISTORY_TAG, outer + 1)
    IN  IF inner # 0 /\ inner < IndexOfEnd(x, HISTORY_TAG, outer) THEN inner ELSE 0
WithoutNestedHistory(x) ==
    SubSeq(x, 1, NestedHistoryAt(x) - 1)
        \o SubSeq(x, IndexOfEnd(x, HISTORY_TAG, NestedHistoryAt(x)) + 1, Len(x))

\* C25 (as claimed): a History element inside an entry of a History element
\* is ignored: the document is read as the document without that element
\* is read, with the same fields in the older version, in its entry and in
\* all that follows.
C25_NestedHistoryIgnored ==
    (pc \in {"check", "done"} /\ xml \in HistoryDocuments /\ NestedHistoryAt(xml) > 0) =>
        /\ xml_read(xml, InnerKey) = xml_read(WithoutNestedHistory(xml), InnerKey)
        /\ pc = "check" => Ok(xml_data) = xml_read(WithoutNestedHistory(xml), InnerKey)
\* A document whose older version holds a History element with an entry in
\* it was opened, and the entry of the inner History gave the older version
\* its UUID.
C25_NestedHistorySeen ==
    /\ pc = "done" /\ Kind(result) = "Ok"
    /\ xml \in HistoryDocuments
    /\ NestedHistoryAt(xml) > 0
    /\ IndexOfStart(xml, ENTRY_TAG, NestedHistoryAt(xml)) < IndexOfEnd(xml, HISTORY_TAG, NestedHistoryAt(xml))
    /\ Args(result).root_group.entries[1].history[1].uuid = Uuid(9)

\* The position of an unknown element of a document, 0 without one; and the
\* document without that element.
UnknownAt(x) == IndexOfStart(x, UNKNOWN_TAG, 1)
WithoutUnknown(x) ==
    SubSeq(x, 1, UnknownAt(x) - 1) \o SubSeq(x, IndexOfEnd(x, UNKNOWN_TAG, 1) + 1, Len(x))

\* C30 (as claimed): an element the reader does not know is ignored with all
\* it holds: the document is read as the document without the element is
\* read, and the inner cipher ends at the same position.
C30_UnknownIgnored ==
    (pc \in {"check", "done"} /\ xml \in UnknownDocuments /\ UnknownAt(xml) > 0) =>
        /\ xml_read(xml, InnerKey) = xml_read(WithoutUnknown(xml), InnerKey)
        /\ pc = "check" => Ok(xml_data) = xml_read(WithoutUnknown(xml), InnerKey)
        /\ KeystreamAfter(xml, InnerKey) = KeystreamAfter(WithoutUnknown(xml), InnerKey)
\* A document with an unknown element that holds a Name element was opened,
\* and the group has the name given inside the unknown element.
C30_UnknownChildSeen ==
    /\ pc = "done" /\ Kind(result) = "Ok"
    /\ xml \in UnknownDocuments
    /\ UnknownAt(xml) > 0
    /\ xml[UnknownAt(xml) + 1] = StartEl(NAME_TAG, <<>>)
    /\ Args(result).root_group.name = Str("sub")

\* C26 (as claimed): a file whose data blocks hold one GZip stream cut in
\* two is read as the document the whole stream decodes to, so opening it
\* ends with a database.
C26_SplitStreamRead ==
    input \in SplitStreamFiles =>
        /\ pc = "xml" => xml = SplitDocument
        /\ pc = "done" => Kind(result) = "Ok"
\* A file with the right key, header and block hashes whose GZip stream is
\* cut in two was opened, and the open ended with an I/O error.
C26_SplitStreamRejectedSeen ==
    /\ pc = "done"
    /\ input \in SplitStreamFiles
    /\ GzipDecode(SplitStream) = Ok(SplitDocument)
    /\ IsErr(result, "Io")

\* C27 (as claimed): from_string and to_string are inverses of each other:
\* the string of the key of a name is that name, the key of the string of a
\* key is that key, and the keys of two different names, like the keys two
\* different keys come back as, are different.
C27_MutuallyInverse ==
    /\ pc = "string_done" =>
          /\ out = subject
          /\ \A name \in KeyNames : from_string(Str(name)) = receiver => Str(name) = subject
    /\ pc = "key_done" =>
          /\ out = subject
          /\ \A k \in StringKeys : from_string(to_string(k)) = out => k = subject
\* A name that differs from the canonical name of a standard key in case
\* only went through from_string and to_string and came back changed.
C27_OtherSpellingSeen ==
    /\ pc = "string_done"
    /\ subject = Str("title")
    /\ receiver = <<"Title", "">>
    /\ out = Str("Title")

\* C28 (as claimed): Database::open returns a database or an error for every
\* file and every key; a decrypted payload of fewer than 32 bytes gives an
\* error.
C28_OpenReturns ==
    pc = "done" => Kind(result) \in {"Ok", "Err"}
\* A file whose encrypted payload decrypts, with the right key, to fewer
\* bytes than the stream start bytes was opened.
C28_ShortPayloadSeen ==
    /\ pc = "done"
    /\ key = BaseDb.composite_key
    /\ Len(payload) < STREAM_START_BYTES_SIZE
    /\ payload = Take(BaseRandom.stream_start_bytes, Len(payload))
    /\ payload # <<>>
    /\ Kind(result) = "Panic"

\* C29 (as claimed): the size field written for the comment is the number
\* of comment bytes written after it, so the comment read back is the
\* comment written and the reader goes on with the record that follows it.
C29_CommentSize ==
    pc = "comment_read" =>
        /\ sink[2].byte + 256 * sink[3].byte = sink[4].count
        /\ out[1].count = subject.count
        /\ out[2].byte = MASTER_CIPHER_HID
\* The runs stand for the bytes write_comment writes: for a short comment
\* they expand to the record the writer of whole files writes.
C29_RunsAreBytes ==
    (pc # "write_comment" /\ subject.count <= 3) =>
        Expand(write_comment_runs(subject))
            = write_comment(Some(Fill(subject.count, subject.byte)))
\* A comment of more than 65535 bytes was written with all its bytes, and
\* the record was read back.
C29_LongCommentSeen ==
    /\ pc = "comment_read"
    /\ subject.count > U16_MAX
    /\ sink[4] = subject
    /\ out[1].count < subject.count
====
